---- MODULE Spec2Model ----
(***************************************************************************)
(* A model of @northscaler/error-support: the CodedError base class, the   *)
(* defineErrorClass factory with its code/name derivation, the message     *)
(* formatter, and the toObject / toJson conversions.                       *)
(*                                                                         *)
(* JavaScript strings are sequences of one-character strings, so that the  *)
(* casing conversions and the regular-expression replacements of the code  *)
(* are computed character by character.  JavaScript values are records     *)
(* tagged by t (the result of typeof, with null and arrays told apart);    *)
(* errors and plain objects live in a heap and are referred to by their    *)
(* index, so that the caller can build cyclic structures through them.     *)
(***************************************************************************)
EXTENDS Integers, Sequences, FiniteSets, TLC

VARIABLES
  classes,  \* the error classes defineErrorClass has returned, in order
  heap,     \* the errors and plain objects allocated so far
  last      \* the last call: its operation, its arguments and its outcome

vars == <<classes, heap, last>>

\* Bounds of the model.
MaxClasses == 2
MaxHeap == 3
MaxSerialized == 2
MaxConverted == 3

(***************************************************************************)
(* Characters and strings                                                  *)
(***************************************************************************)
UpperChars ==
  <<"A","B","C","D","E","F","G","H","I","J","K","L","M",
    "N","O","P","Q","R","S","T","U","V","W","X","Y","Z">>

LowerChars ==
  <<"a","b","c","d","e","f","g","h","i","j","k","l","m",
    "n","o","p","q","r","s","t","u","v","w","x","y","z">>

DigitChars == <<"0","1","2","3","4","5","6","7","8","9">>

IsUpperChar(c) == \E i \in 1..Len(UpperChars) : UpperChars[i] = c

IsLowerChar(c) == \E i \in 1..Len(LowerChars) : LowerChars[i] = c

CharToLower(c) ==
  IF IsUpperChar(c)
  THEN LowerChars[CHOOSE i \in 1..Len(UpperChars) : UpperChars[i] = c]
  ELSE c

CharToUpper(c) ==
  IF IsLowerChar(c)
  THEN UpperChars[CHOOSE i \in 1..Len(LowerChars) : LowerChars[i] = c]
  ELSE c

\* String.prototype.toLowerCase / toUpperCase
toLowerCase(s) == [i \in 1..Len(s) |-> CharToLower(s[i])]

toUpperCase(s) == [i \in 1..Len(s) |-> CharToUpper(s[i])]

\* String.prototype.startsWith / endsWith
startsWith(s, p) == Len(p) <= Len(s) /\ SubSeq(s, 1, Len(p)) = p

endsWith(s, p) ==
  Len(p) <= Len(s) /\ SubSeq(s, Len(s) - Len(p) + 1, Len(s)) = p

\* s.replace(/^p/, '') and s.replace(/p$/, '') for a literal p
ReplacePrefix(s, p) ==
  IF startsWith(s, p) THEN SubSeq(s, Len(p) + 1, Len(s)) ELSE s

ReplaceSuffix(s, p) ==
  IF endsWith(s, p) THEN SubSeq(s, 1, Len(s) - Len(p)) ELSE s

\* s.split(sep) for a one-character separator: always at least one segment
split(s, sep) ==
  LET cuts == <<0>> \o SelectSeq([i \in 1..Len(s) |-> i], LAMBDA i : s[i] = sep)
                   \o <<Len(s) + 1>>
  IN  [k \in 1..(Len(cuts) - 1) |-> SubSeq(s, cuts[k] + 1, cuts[k + 1] - 1)]

\* The decimal text of a natural number (Number.prototype.toString)
RECURSIVE NatToString(_)
NatToString(n) ==
  IF n < 10 THEN <<DigitChars[n + 1]>>
  ELSE NatToString(n \div 10) \o <<DigitChars[(n % 10) + 1]>>

(***************************************************************************)
(* JavaScript values                                                       *)
(***************************************************************************)
Undefined == [t |-> "undefined"]
Null == [t |-> "null"]
Bool(b) == [t |-> "boolean", b |-> b]
Num(n) == [t |-> "number", n |-> n]
Str(s) == [t |-> "string", s |-> s]
Symbol == [t |-> "symbol"]
Ref(i) == [t |-> "object", id |-> i]
List(elems) == [t |-> "array", elems |-> elems]
BigInt(n) == [t |-> "bigint", n |-> n]

\* ToBoolean, as used by !x, x || y and x ? y : z
Truthy(v) ==
  CASE v.t = "undefined" -> FALSE
    [] v.t = "null" -> FALSE
    [] v.t = "boolean" -> v.b
    [] v.t = "number" -> v.n # 0
    [] v.t = "bigint" -> v.n # 0
    [] v.t = "string" -> v.s # <<>>
    [] OTHER -> TRUE

Falsy(v) == ~Truthy(v)

\* x || y
OrElse(x, y) == IF Truthy(x) THEN x ELSE y

(***************************************************************************)
(* string-utils: casing conversions                                        *)
(***************************************************************************)
\* .replace(/(^([A-Z]))/, (match, it) => `${it.toLowerCase()}`)
LowerFirstUpper(s) ==
  IF s # <<>> /\ IsUpperChar(Head(s))
  THEN <<CharToLower(Head(s))>> \o Tail(s)
  ELSE s

\* .replace(/([A-Z])/g, (match, it) => `_${it.toLowerCase()}`)
\* each character gives two places, the second one empty unless it is replaced
UnderscoreEachUpper(s) ==
  SelectSeq([n \in 1..(2 * Len(s)) |->
               LET c == s[(n + 1) \div 2]
               IN  IF n % 2 = 1
                   THEN (IF IsUpperChar(c) THEN "_" ELSE c)
                   ELSE (IF IsUpperChar(c) THEN CharToLower(c) ELSE "")],
            LAMBDA c : c # "")

toSnake(camel, upper) ==
  IF Falsy(camel) THEN camel
  ELSE LET snake == UnderscoreEachUpper(LowerFirstUpper(camel.s))
       IN  Str(IF upper THEN toUpperCase(snake) ELSE snake)

toUpperSnake(camel) == toSnake(camel, TRUE)

\* next.replace(/^([a-z])/, (match, it) => it.toUpperCase())
UpperFirstLower(s) ==
  IF s # <<>> /\ IsLowerChar(Head(s))
  THEN <<CharToUpper(Head(s))>> \o Tail(s)
  ELSE s

\* the reduce of toCamel over the segments, with upper = true throughout
RECURSIVE CamelReduce(_, _)
CamelReduce(accum, segments) ==
  IF segments = <<>> THEN accum
  ELSE LET next == Head(segments)
       IN  IF next = <<>>
           THEN CamelReduce(accum, Tail(segments))
           ELSE CamelReduce(accum \o UpperFirstLower(toLowerCase(next)),
                            Tail(segments))

toCamel(snake) ==
  IF Falsy(snake) THEN snake
  ELSE Str(CamelReduce(<<>>, split(snake.s, "_")))

toUpperCamel(snake) == toCamel(snake)

(***************************************************************************)
(* CodedError.js: the naming deriver and the factory                       *)
(***************************************************************************)
E_PREFIX == <<"E","_">>
ERROR_SUFFIX == <<"_","E","R","R","O","R">>
ERROR_WORD == <<"E","r","r","o","r">>

\* A variant of DeriveCode that forgets to strip the _ERROR suffix
DeriveCode_KeepsSuffix(name) == Str(E_PREFIX \o toUpperSnake(name).s)

\* code = `E_${toUpperSnake(name)}`.replace(/_ERROR$/, '')
DeriveCode(name) ==
  Str(ReplaceSuffix(E_PREFIX \o toUpperSnake(name).s, ERROR_SUFFIX))

\* A variant of DeriveName that appends Error without looking at the ending
DeriveName_AlwaysAppends(code) ==
  Str(toUpperCamel(Str(ReplacePrefix(code.s, E_PREFIX))).s \o ERROR_WORD)

\* A variant of DeriveName that never appends Error
DeriveName_NeverAppends(code) ==
  toUpperCamel(Str(ReplacePrefix(code.s, E_PREFIX)))

\* name = toUpperCamel(code.replace(/^E_/, ''))
\* if (!name.endsWith('Error')) name = `${name}Error`
DeriveName(code) ==
  LET name == toUpperCamel(Str(ReplacePrefix(code.s, E_PREFIX)))
  IN  IF endsWith(name.s, ERROR_WORD) THEN name ELSE Str(name.s \o ERROR_WORD)

\* A variant of the guard that only looks for absent values, not falsy ones
NameOrCodeRequired_OnlyUndefined(code, name) ==
  name.t = "undefined" /\ code.t = "undefined"

\* The guard of _determineCodeAndName: throw new Error('name or code is required')
NameOrCodeRequired(code, name) == Falsy(name) /\ Falsy(code)

\* A variant of _determineCodeAndName that derives the code from the name
\* whenever there is a name
_determineCodeAndName_NameWins(code, name) ==
  IF NameOrCodeRequired(code, name) THEN [threw |-> TRUE]
  ELSE LET code1 == IF Truthy(name) THEN DeriveCode(name) ELSE code
           name1 == IF Truthy(code1) /\ Falsy(name) THEN DeriveName(code1) ELSE name
       IN  [threw |-> FALSE, code |-> code1, name |-> name1]

_determineCodeAndName(code, name) ==
  IF NameOrCodeRequired(code, name) THEN [threw |-> TRUE]
  ELSE LET code1 == IF Truthy(name) /\ Falsy(code) THEN DeriveCode(name) ELSE code
           name1 == IF Truthy(code1) /\ Falsy(name) THEN DeriveName(code1) ELSE name
       IN  [threw |-> FALSE, code |-> code1, name |-> name1]

\* The class defineErrorClass returns: its CODE, the name bound to the class,
\* and the class it extends (0 is CodedError itself).
NewClass(codename, supererror) ==
  [CODE |-> codename.code, name |-> codename.name, super |-> supererror]

defineErrorClass(code, name, supererror) ==
  \/ /\ NameOrCodeRequired(code, name)
     /\ classes' = classes
     /\ last' = [op |-> "defineErrorClass", code |-> code, name |-> name,
                 supererror |-> supererror, threw |-> TRUE, class |-> 0]
  \/ /\ ~NameOrCodeRequired(code, name)
     /\ Len(classes) < MaxClasses
     /\ classes' = Append(classes,
                          NewClass(_determineCodeAndName(code, name), supererror))
     /\ last' = [op |-> "defineErrorClass", code |-> code, name |-> name,
                 supererror |-> supererror, threw |-> FALSE,
                 class |-> Len(classes) + 1]


(***************************************************************************)
(* Heap objects                                                            *)
(***************************************************************************)
\* The stack text the runtime gives the error allocated as object id
StackOf(id) == Str(<<"a","t"," ">> \o NatToString(id))

\* new Error(message): keys and vals are the own enumerable properties the
\* caller adds later, in insertion order
ErrorObject(message, id) ==
  [kind |-> "Error", name |-> Str(ERROR_WORD), message |-> message,
   stack |-> StackOf(id), keys |-> <<>>, vals |-> <<>>]

\* { key: val, ... }: the own enumerable properties, in insertion order
PlainObject(keys, vals) == [kind |-> "Object", keys |-> keys, vals |-> vals]

instanceofError(v, h) ==
  v.t = "object" /\ h[v.id].kind \in {"Error", "CodedError"}

instanceofCodedError(v, h) ==
  v.t = "object" /\ h[v.id].kind = "CodedError"

\* Array.isArray
isArray(v) == v.t = "array"

\* The outcome of an evaluation: a value, or a thrown value
Return(v) == [threw |-> FALSE, v |-> v]
Throw(e) == [threw |-> TRUE, error |-> e]

\* The one element of a singleton.  One({F(x) : x \in {e}}) is F of the value
\* of e, with e evaluated once: the way a statement uses an earlier result
One(S) == CHOOSE y \in S : TRUE

\* An error object the runtime throws: it has a name, a message and a stack
\* and no code
NativeError(name, message) ==
  [t |-> "thrown", name |-> Str(name), message |-> Str(message),
   stack |-> Str(name \o <<":"," ">> \o message)]

TypeErrorName == <<"T","y","p","e","E","r","r","o","r">>
RangeErrorName == <<"R","a","n","g","e","E","r","r","o","r">>

SymbolToStringError ==
  NativeError(TypeErrorName,
    <<"C","a","n","n","o","t"," ","c","o","n","v","e","r","t"," ","a"," ",
      "S","y","m","b","o","l"," ","v","a","l","u","e"," ","t","o"," ","a"," ",
      "s","t","r","i","n","g">>)

\* Number.prototype.toString for the integers of the model
NumberToString(n) ==
  IF n < 0 THEN <<"-">> \o NatToString(0 - n) ELSE NatToString(n)

\* Error.prototype.toString
ErrorToString(o) ==
  IF o.name.s = <<>> THEN o.message.s
  ELSE IF o.message.s = <<>> THEN o.name.s
  ELSE o.name.s \o <<":"," ">> \o o.message.s

\* ToString(v) of the language, as applied by template literals and by Array.prototype.join:
\* a symbol cannot be converted and throws a TypeError
RECURSIVE ToText(_, _), join(_, _, _)
ToText(v, h) ==
  CASE v.t = "undefined" -> Return(<<"u","n","d","e","f","i","n","e","d">>)
    [] v.t = "null" -> Return(<<"n","u","l","l">>)
    [] v.t = "boolean" ->
         Return(IF v.b THEN <<"t","r","u","e">> ELSE <<"f","a","l","s","e">>)
    [] v.t = "number" -> Return(NumberToString(v.n))
    [] v.t = "bigint" -> Return(NumberToString(v.n))
    [] v.t = "string" -> Return(v.s)
    [] v.t = "symbol" -> Throw(SymbolToStringError)
    [] v.t = "array" -> join(v.elems, <<",">>, h)
    [] v.t = "object" ->
         IF h[v.id].kind \in {"Error", "CodedError"}
         THEN Return(ErrorToString(h[v.id]))
         ELSE Return(<<"[","o","b","j","e","c","t"," ",
                       "O","b","j","e","c","t","]">>)

\* Array.prototype.join: null and undefined elements give the empty text
join(elems, sep, h) ==
  IF elems = <<>> THEN Return(<<>>)
  ELSE One({ IF first.threw THEN first
             ELSE One({ IF rest.threw THEN rest
                        ELSE Return(first.v
                                      \o (IF Len(elems) > 1 THEN sep ELSE <<>>)
                                      \o rest.v)
                        : rest \in {join(Tail(elems), sep, h)} })
             : first \in {IF Head(elems).t \in {"undefined", "null"}
                          THEN Return(<<>>)
                          ELSE ToText(Head(elems), h)} })

(***************************************************************************)
(* CodedError: the message                                                 *)
(***************************************************************************)
NO_CODE == <<"N","O","_","C","O","D","E">>
NO_MESSAGE == <<"N","O","_","M","E","S","S","A","G","E">>
OMISSION == Null

\* A variant of CauseText without the NO_MESSAGE sentinel
CauseText_NoSentinel(it, h) ==
  IF instanceofError(it, h) THEN h[it.id].message ELSE it

\* it instanceof Error ? it?.message || CodedError.NO_MESSAGE : it
CauseText(it, h) ==
  IF instanceofError(it, h) THEN OrElse(h[it.id].message, Str(NO_MESSAGE)) ELSE it

\* A variant of CauseTexts without the filter
CauseTexts_NoFilter(elems, h) ==
  [i \in 1..Len(elems) |-> CauseText(elems[i], h)]

\* cause.map(...).filter(it => it !== null && it !== undefined)
CauseTexts(elems, h) ==
  SelectSeq([i \in 1..Len(elems) |-> CauseText(elems[i], h)],
            LAMBDA it : it.t \notin {"null", "undefined"})

\* What _message appends for the cause
CauseTail(cause, h) ==
  IF isArray(cause)
  THEN One({ IF joined.threw THEN joined
             ELSE Return(<<":"," ","[">> \o joined.v \o <<"]">>)
             : joined \in {join(CauseTexts(cause.elems, h), <<","," ">>, h)} })
  ELSE IF Truthy(cause)
  THEN One({ IF text.threw THEN text
             ELSE Return(<<":"," ">> \o text.v)
             : text \in {ToText(CauseText(cause, h), h)} })
  ELSE Return(<<>>)

\* A variant of _message that leaves an absent message out
_message_SkipsAbsentMessage(code, message, cause, h) ==
  One({ IF c.threw THEN c ELSE IF m.threw THEN m ELSE IF tail.threw THEN tail
        ELSE Return(Str(c.v \o (IF m.v = <<>> THEN <<>> ELSE <<":"," ">> \o m.v)
                            \o tail.v))
        : c \in {ToText(OrElse(code, Str(NO_CODE)), h)},
          m \in {IF Truthy(message) THEN ToText(message, h) ELSE Return(<<>>)},
          tail \in {CauseTail(cause, h)} })

\* CodedError._message({ code, message, cause })
_message(code, message, cause, h) ==
  One({ IF c.threw THEN c ELSE IF m.threw THEN m ELSE IF tail.threw THEN tail
        ELSE Return(Str(c.v \o <<":"," ">> \o m.v \o tail.v))
        : c \in {ToText(OrElse(code, Str(NO_CODE)), h)},
          m \in {ToText(OrElse(message, Str(NO_MESSAGE)), h)},
          tail \in {CauseTail(cause, h)} })

(***************************************************************************)
(* CodedError: the constructors                                            *)
(***************************************************************************)
\* The first argument of a constructor is absent (Undefined), a bare string,
\* or an options object with these properties
Options(cause, message, msg, info, _n, _c) ==
  [t |-> "options", cause |-> cause, message |-> message, msg |-> msg,
   info |-> info, _n |-> _n, _c |-> _c]

\* the destructuring of the first argument: a string has none of the properties
Destructure(arg) ==
  IF arg.t = "options" THEN arg
  ELSE Options(Undefined, Undefined, Undefined, Undefined, Undefined, Undefined)

\* CodedError's own constructor: it passes msg, not message, to _message, and
\* sets name, code, cause and info as own enumerable properties, in this order
CodedErrorConstructor(arg, id, h) ==
  LET a == Destructure(arg)
  IN  One({ IF m.threw THEN m
            ELSE Return([kind |-> "CodedError", class |-> 0, message |-> m.v,
                         stack |-> StackOf(id), name |-> a._n, code |-> a._c,
                         cause |-> a.cause, info |-> a.info])
            : m \in {_message(a._c, Undefined, a.cause, h)} })

\* The constructor of the class defineErrorClass returned as cls[C]
RECURSIVE ClassConstructor(_, _, _, _, _)

\* A variant of ClassConstructor in which msg wins over message
\* A variant of ClassConstructor in which msg is taken before message
ClassConstructor_MsgWins(C, arg, id, h, cls) ==
  LET a == Destructure(arg)
      message1 == IF arg.t = "string" THEN arg ELSE a.message
      message == IF Truthy(a.msg) THEN a.msg ELSE message1
      _c == OrElse(a._c, cls[C].CODE)
      _n == OrElse(OrElse(a._n, cls[C].name), _c)
      superArg == Options(a.cause, message, Undefined, a.info, _n, _c)
  IN  One({ IF this.threw THEN this ELSE IF m.threw THEN m
            ELSE Return([this.v EXCEPT !.message = m.v])
            : this \in {IF cls[C].super = 0
                        THEN CodedErrorConstructor(superArg, id, h)
                        ELSE ClassConstructor(cls[C].super, superArg, id, h, cls)},
              m \in {_message(_c, message, a.cause, h)} })

\* A variant of ClassConstructor that hands the code and name it was given,
\* not the ones it resolved, to the constructor above it
ClassConstructor_SuperResolves(C, arg, id, h, cls) ==
  LET a == Destructure(arg)
      message1 == IF arg.t = "string" THEN arg ELSE a.message
      message == IF Falsy(message1) THEN a.msg ELSE message1
      _c == OrElse(a._c, cls[C].CODE)
      _n == OrElse(OrElse(a._n, cls[C].name), _c)
      superArg == Options(a.cause, message, Undefined, a.info, a._n, a._c)
  IN  One({ IF this.threw THEN this ELSE IF m.threw THEN m
            ELSE Return([this.v EXCEPT !.message = m.v])
            : this \in {IF cls[C].super = 0
                        THEN CodedErrorConstructor(
                               Options(a.cause, message, Undefined, a.info, _n, _c),
                               id, h)
                        ELSE ClassConstructor(cls[C].super, superArg, id, h, cls)},
              m \in {_message(_c, message, a.cause, h)} })

\* A variant of ClassConstructor that keeps the message the constructor
\* above it left
ClassConstructor_KeepsSuperMessage(C, arg, id, h, cls) ==
  LET a == Destructure(arg)
      message1 == IF arg.t = "string" THEN arg ELSE a.message
      message == IF Falsy(message1) THEN a.msg ELSE message1
      _c == OrElse(a._c, cls[C].CODE)
      _n == OrElse(OrElse(a._n, cls[C].name), _c)
      superArg == Options(a.cause, message, Undefined, a.info, _n, _c)
  IN  One({ IF this.threw THEN this ELSE IF m.threw THEN m
            ELSE Return(this.v)
            : this \in {IF cls[C].super = 0
                        THEN CodedErrorConstructor(superArg, id, h)
                        ELSE ClassConstructor(cls[C].super, superArg, id, h, cls)},
              m \in {_message(_c, message, a.cause, h)} })

ClassConstructor(C, arg, id, h, cls) ==
  LET a == Destructure(arg)
      message1 == IF arg.t = "string" THEN arg ELSE a.message
      message == IF Falsy(message1) THEN a.msg ELSE message1
      _c == OrElse(a._c, cls[C].CODE)
      _n == OrElse(OrElse(a._n, cls[C].name), _c)
      superArg == Options(a.cause, message, Undefined, a.info, _n, _c)
  IN  One({ IF this.threw THEN this ELSE IF m.threw THEN m
            ELSE Return([this.v EXCEPT !.message = m.v])
            : this \in {IF cls[C].super = 0
                        THEN CodedErrorConstructor(superArg, id, h)
                        ELSE ClassConstructor(cls[C].super, superArg, id, h, cls)},
              m \in {_message(_c, message, a.cause, h)} })

\* new C(arg)
New(C, arg) ==
  /\ Len(heap) < MaxHeap
  /\ \E r \in {ClassConstructor(C, arg, Len(heap) + 1, heap, classes)} :
       IF r.threw
       THEN /\ heap' = heap
            /\ last' = [op |-> "new", class |-> C, arg |-> arg,
                        threw |-> TRUE, error |-> r.error]
       ELSE /\ heap' = Append(heap, [r.v EXCEPT !.class = C])
            /\ last' = [op |-> "new", class |-> C, arg |-> arg,
                        threw |-> FALSE, id |-> Len(heap) + 1]
  /\ UNCHANGED classes

\* const e = new Error(message)
NewError(message) ==
  /\ Len(heap) < MaxHeap
  /\ heap' = Append(heap, ErrorObject(message, Len(heap) + 1))
  /\ last' = [op |-> "newError", id |-> Len(heap) + 1]
  /\ UNCHANGED classes

(***************************************************************************)
(* CodedError: toObject                                                    *)
(***************************************************************************)
K_NAME == <<"n","a","m","e">>
K_CODE == <<"c","o","d","e">>
K_CAUSE == <<"c","a","u","s","e">>
K_INFO == <<"i","n","f","o">>
K_MESSAGE == <<"m","e","s","s","a","g","e">>
K_STACK == <<"s","t","a","c","k">>

\* An object literal the library builds: its keys in insertion order
Pojo(keys, vals) == [t |-> "pojo", keys |-> keys, vals |-> vals]

\* on[key] = val, for a key the object does not have yet
SetKey(on, key, val) == Pojo(Append(on.keys, key), Append(on.vals, val))

\* The argument { omitting } of toObject and _anyToObject
OmitArg(omitting) == [t |-> "options", omitting |-> omitting]

\* from[key] for a value that is neither null nor undefined
Get(from, key, h) ==
  IF from.t = "object"
  THEN LET o == h[from.id]
       IN  IF o.kind = "Object"
           THEN IF \E i \in 1..Len(o.keys) : o.keys[i] = key
                THEN o.vals[CHOOSE i \in 1..Len(o.keys) : o.keys[i] = key]
                ELSE Undefined
           ELSE IF key = K_MESSAGE THEN o.message
           ELSE IF key = K_NAME THEN o.name
           ELSE IF key = K_STACK THEN o.stack
           ELSE IF o.kind = "CodedError" /\ key = K_CODE THEN o.code
           ELSE IF o.kind = "CodedError" /\ key = K_CAUSE THEN o.cause
           ELSE IF o.kind = "CodedError" /\ key = K_INFO THEN o.info
           ELSE IF /\ o.kind = "Error"
                   /\ \E i \in 1..Len(o.keys) : o.keys[i] = key
           THEN o.vals[CHOOSE i \in 1..Len(o.keys) : o.keys[i] = key]
           ELSE Undefined
  ELSE IF from.t = "thrown"
  THEN IF key = K_MESSAGE THEN from.message
       ELSE IF key = K_NAME THEN from.name
       ELSE IF key = K_STACK THEN from.stack
       ELSE Undefined
  ELSE Undefined

\* omitting.includes(key) on a normalized array
includes(omitting, key) ==
  \E i \in 1..Len(omitting.elems) : omitting.elems[i] = Str(key)

\* A variant of _normalizeOmitting that takes null for false
_normalizeOmitting_NullIsFalse(omitting) ==
  IF omitting.t \in {"undefined", "null"} THEN List(<<>>)
  ELSE IF omitting.t = "boolean"
  THEN IF omitting.b THEN List(<<Str(K_STACK)>>) ELSE List(<<>>)
  ELSE IF Falsy(omitting) THEN List(<<>>)
  ELSE List(SelectSeq(IF isArray(omitting) THEN omitting.elems ELSE <<omitting>>,
                      LAMBDA it : it.t = "string"))

\* CodedError._normalizeOmitting(omitting = []): the array of the names to omit
_normalizeOmitting(omitting) ==
  IF omitting.t = "undefined" THEN List(<<>>)
  ELSE IF omitting.t = "null" THEN List(<<Str(K_STACK)>>)
  ELSE IF omitting.t = "boolean"
  THEN IF omitting.b THEN List(<<Str(K_STACK)>>) ELSE List(<<>>)
  ELSE IF Falsy(omitting) THEN List(<<>>)
  ELSE List(SelectSeq(IF isArray(omitting) THEN omitting.elems ELSE <<omitting>>,
                      LAMBDA it : it.t = "string"))

\* A variant of _setOrOmit that leaves an omitted key out
_setOrOmit_DropsKey(omitting, on, from, key, h) ==
  IF includes(omitting, key) THEN on ELSE SetKey(on, key, Get(from, key, h))

\* CodedError._setOrOmit({ omitting, on, from, key })
_setOrOmit(omitting, on, from, key, h) ==
  SetKey(on, key, IF includes(omitting, key) THEN OMISSION ELSE Get(from, key, h))

\* What the runtime throws when the recursion never ends
StackOverflowError ==
  NativeError(RangeErrorName, <<"M","a","x","i","m","u","m"," ","c","a","l","l"," ","s","t","a","c","k"," ","s","i","z","e"," ","e","x","c","e","e","d","e","d">>)

\* What destructuring null throws
DestructureError ==
  NativeError(TypeErrorName, <<"C","a","n","n","o","t"," ","d","e","s","t","r","u","c","t","u","r","e"," ","p","r","o","p","e","r","t","y"," ","'","o","m","i","t","t","i","n","g","'"," ","o","f"," ","'","o","b","j","e","c","t"," ","n","u","l","l","'"," ","a","s"," ","i","t"," ","i","s"," ","n","u","l","l",".">>)

\* toObject, _anyToObject and its two traversals.  path holds the heap objects
\* whose conversion is under way: meeting one of them again is a recursion that
\* never ends, which the runtime ends with a RangeError.
RECURSIVE toObject(_, _, _, _), _anyToObject(_, _, _, _),
          MapToObject(_, _, _, _), ReduceKeys(_, _, _, _, _, _)

\* A variant of toObject that converts info the way it converts the cause
toObject_ConvertsInfo(id, arg, path, h) ==
  IF arg.t = "null" THEN Throw(DestructureError)
  ELSE IF id \in path THEN Throw(StackOverflowError)
  ELSE LET given == IF arg.t = "options" THEN arg.omitting ELSE Undefined
           omitting ==
             _normalizeOmitting(IF arg.t = "boolean" THEN arg
                                ELSE IF given.t = "undefined" THEN Str(K_STACK)
                                ELSE given)
           this == Ref(id)
           nameCode ==
             _setOrOmit(omitting,
                        _setOrOmit(omitting, Pojo(<<>>, <<>>), this, K_NAME, h),
                        this, K_CODE, h)
       IN  One({ IF cause.threw THEN cause ELSE IF info.threw THEN info
                 ELSE Return(
                   _setOrOmit(omitting,
                     _setOrOmit(omitting,
                       SetKey(SetKey(nameCode, K_CAUSE, cause.v), K_INFO, info.v),
                       this, K_MESSAGE, h),
                     this, K_STACK, h))
                 : cause \in {IF includes(omitting, K_CAUSE)
                              THEN Return(OMISSION)
                              ELSE _anyToObject(h[id].cause, omitting,
                                                path \cup {id}, h)},
                   info \in {IF includes(omitting, K_INFO)
                             THEN Return(OMISSION)
                             ELSE _anyToObject(h[id].info, omitting,
                                               path \cup {id}, h)} })

\* e.toObject(arg), for the instance e = h[id]
toObject(id, arg, path, h) ==
  IF arg.t = "null" THEN Throw(DestructureError)
  ELSE IF id \in path THEN Throw(StackOverflowError)
  ELSE LET given == IF arg.t = "options" THEN arg.omitting ELSE Undefined
           omitting ==
             _normalizeOmitting(IF arg.t = "boolean" THEN arg
                                ELSE IF given.t = "undefined" THEN Str(K_STACK)
                                ELSE given)
           this == Ref(id)
           nameCode ==
             _setOrOmit(omitting,
                        _setOrOmit(omitting, Pojo(<<>>, <<>>), this, K_NAME, h),
                        this, K_CODE, h)
       IN  One({ IF cause.threw THEN cause
                 ELSE Return(
                   _setOrOmit(omitting,
                     _setOrOmit(omitting,
                       _setOrOmit(omitting, SetKey(nameCode, K_CAUSE, cause.v),
                                  this, K_INFO, h),
                       this, K_MESSAGE, h),
                     this, K_STACK, h))
                 : cause \in {IF includes(omitting, K_CAUSE)
                              THEN Return(OMISSION)
                              ELSE _anyToObject(h[id].cause, omitting,
                                                path \cup {id}, h)} })

\* A variant of MapToObject that leaves null and undefined elements out, as
\* the message does
MapToObject_DropsAbsent(elems, omitting, path, h) ==
  IF elems = <<>> THEN Return(<<>>)
  ELSE One({ IF first.threw THEN first
             ELSE One({ IF rest.threw THEN rest
                        ELSE IF first.v.t \in {"undefined", "null"} THEN rest
                        ELSE Return(<<first.v>> \o rest.v)
                        : rest \in {MapToObject(Tail(elems), omitting, path, h)} })
             : first \in {_anyToObject(Head(elems), omitting, path, h)} })

\* item.map(it => CodedError._anyToObject({ item: it, omitting }))
MapToObject(elems, omitting, path, h) ==
  IF elems = <<>> THEN Return(<<>>)
  ELSE One({ IF first.threw THEN first
             ELSE One({ IF rest.threw THEN rest
                        ELSE Return(<<first.v>> \o rest.v)
                        : rest \in {MapToObject(Tail(elems), omitting, path, h)} })
             : first \in {_anyToObject(Head(elems), omitting, path, h)} })

\* A variant of ReduceKeys that converts the value of every key, omitting none
ReduceKeys_OmitsNoKey(accum, o, i, omitting, path, h) ==
  IF i > Len(o.keys) THEN Return(accum)
  ELSE One({ IF val.threw THEN val
             ELSE ReduceKeys(SetKey(accum, o.keys[i], val.v), o, i + 1,
                             omitting, path, h)
             : val \in {_anyToObject(o.vals[i], omitting, path, h)} })

\* Object.keys(item).reduce(...), from key i on
ReduceKeys(accum, o, i, omitting, path, h) ==
  IF i > Len(o.keys) THEN Return(accum)
  ELSE One({ IF val.threw THEN val
             ELSE ReduceKeys(SetKey(accum, o.keys[i], val.v), o, i + 1,
                             omitting, path, h)
             : val \in {IF includes(omitting, o.keys[i])
                        THEN Return(OMISSION)
                        ELSE _anyToObject(o.vals[i], omitting, path, h)} })

\* A variant of _anyToObject that copies the code of a generic Error too
_anyToObject_CopiesCode(item, omitting, path, h) ==
  IF item.t \in {"undefined", "null"} THEN Return(item)
  ELSE IF item.t \notin {"object", "array"} THEN Return(item)
  ELSE IF isArray(item)
  THEN One({ IF mapped.threw THEN mapped ELSE Return(List(mapped.v))
             : mapped \in {MapToObject(item.elems, omitting, path, h)} })
  ELSE IF instanceofCodedError(item, h)
  THEN toObject(item.id, OmitArg(omitting), path, h)
  ELSE IF instanceofError(item, h)
  THEN Return(
         _setOrOmit(_normalizeOmitting(omitting),
           _setOrOmit(_normalizeOmitting(omitting),
             _setOrOmit(_normalizeOmitting(omitting),
               _setOrOmit(_normalizeOmitting(omitting), Pojo(<<>>, <<>>),
                          item, K_MESSAGE, h),
               item, K_NAME, h),
             item, K_STACK, h),
           item, K_CODE, h))
  ELSE IF item.id \in path THEN Throw(StackOverflowError)
  ELSE ReduceKeys(Pojo(<<>>, <<>>), h[item.id], 1, _normalizeOmitting(omitting),
                  path \cup {item.id}, h)

\* CodedError._anyToObject({ item, omitting })
_anyToObject(item, omitting, path, h) ==
  IF item.t \in {"undefined", "null"} THEN Return(item)
  ELSE IF item.t \notin {"object", "array"} THEN Return(item)
  ELSE IF isArray(item)
  THEN One({ IF mapped.threw THEN mapped ELSE Return(List(mapped.v))
             : mapped \in {MapToObject(item.elems, omitting, path, h)} })
  ELSE IF instanceofCodedError(item, h)
  THEN toObject(item.id, OmitArg(omitting), path, h)
  ELSE IF instanceofError(item, h)
  THEN Return(
         _setOrOmit(_normalizeOmitting(omitting),
           _setOrOmit(_normalizeOmitting(omitting),
             _setOrOmit(_normalizeOmitting(omitting), Pojo(<<>>, <<>>),
                        item, K_MESSAGE, h),
             item, K_NAME, h),
           item, K_STACK, h))
  ELSE IF item.id \in path THEN Throw(StackOverflowError)
  ELSE ReduceKeys(Pojo(<<>>, <<>>), h[item.id], 1, _normalizeOmitting(omitting),
                  path \cup {item.id}, h)

(***************************************************************************)
(* JSON.stringify                                                          *)
(***************************************************************************)
QUOTE == "\""
BACKSLASH == "\\"
NEWLINE == "\n"

\* The characters of a string as JSON writes them between the quotes
\* (each character gives two places, the second one empty unless it is escaped)
Escape(s) ==
  SelectSeq([n \in 1..(2 * Len(s)) |->
               One({ IF c \notin {QUOTE, BACKSLASH, NEWLINE}
                     THEN (IF n % 2 = 1 THEN c ELSE "")
                     ELSE IF n % 2 = 1 THEN BACKSLASH
                     ELSE IF c = NEWLINE THEN "n"
                     ELSE c
                     : c \in {s[(n + 1) \div 2]} })],
            LAMBDA c : c # "")

QuoteJSONString(s) == <<QUOTE>> \o Escape(s) \o <<QUOTE>>

\* What JSON.stringify throws on a structure that contains itself, and on a BigInt
CircularError ==
  NativeError(TypeErrorName, <<"C","o","n","v","e","r","t","i","n","g"," ","c","i","r","c","u","l","a","r"," ","s","t","r","u","c","t","u","r","e"," ","t","o"," ","J","S","O","N">>)

BigIntError ==
  NativeError(TypeErrorName, <<"D","o"," ","n","o","t"," ","k","n","o","w"," ","h","o","w"," ","t","o"," ","s","e","r","i","a","l","i","z","e"," ","a"," ","B","i","g","I","n","t">>)

\* The own enumerable properties of an object, as JSON.stringify lists them:
\* an Error has the ones the caller added, an instance has name, code, cause
\* and info
OwnEnumerable(v, h) ==
  IF v.t = "pojo" THEN v
  ELSE LET o == h[v.id]
       IN  IF o.kind = "Object" THEN Pojo(o.keys, o.vals)
           ELSE IF o.kind = "CodedError"
           THEN Pojo(<<K_NAME, K_CODE, K_CAUSE, K_INFO>>,
                     <<o.name, o.code, o.cause, o.info>>)
           ELSE Pojo(o.keys, o.vals)

\* The gap of JSON.stringify's third argument: up to ten spaces for a number
Spaces(n) == [i \in 1..n |-> " "]

Gap(spaces) ==
  IF spaces.t = "number" THEN Spaces(IF spaces.n > 10 THEN 10 ELSE spaces.n)
  ELSE IF spaces.t = "string" THEN SubSeq(spaces.s, 1, IF Len(spaces.s) > 10 THEN 10 ELSE Len(spaces.s))
  ELSE <<>>

\* The separators between the items of an object or array, and around them
Wrap(open, items, close, indent, gap) ==
  IF items = <<>> THEN <<open, close>>
  ELSE IF gap = <<>>
  THEN <<open>> \o items \o <<close>>
  ELSE <<open, NEWLINE>> \o indent \o gap \o items
         \o <<NEWLINE>> \o indent \o <<close>>

Separator(indent, gap) ==
  IF gap = <<>> THEN <<",">> ELSE <<",", NEWLINE>> \o indent \o gap

\* SerializeJSONProperty and its traversals: the text of a value, or undefined
\* for a value JSON leaves out.  stack holds the heap objects being written.
RECURSIVE SerializeJSONProperty(_, _, _, _, _),
          SerializeJSONObject(_, _, _, _, _, _, _),
          SerializeJSONArray(_, _, _, _, _, _, _)

\* the members of o from key i on, items being the members written so far
SerializeJSONObject(o, i, items, stack, indent, gap, h) ==
  IF i > Len(o.keys) THEN Return(Str(Wrap("{", items, "}", indent, gap)))
  ELSE One({ IF val.threw THEN val
             ELSE SerializeJSONObject(o, i + 1,
                    IF val.v.t = "undefined" THEN items
                    ELSE (IF items = <<>> THEN <<>>
                          ELSE items \o Separator(indent, gap))
                           \o QuoteJSONString(o.keys[i])
                           \o (IF gap = <<>> THEN <<":">> ELSE <<":", " ">>)
                           \o val.v.s,
                    stack, indent, gap, h)
             : val \in {SerializeJSONProperty(o.vals[i], stack, indent \o gap,
                                              gap, h)} })

\* the elements from element i on
SerializeJSONArray(elems, i, items, stack, indent, gap, h) ==
  IF i > Len(elems) THEN Return(Str(Wrap("[", items, "]", indent, gap)))
  ELSE One({ IF val.threw THEN val
             ELSE SerializeJSONArray(elems, i + 1,
                    (IF items = <<>> THEN <<>>
                     ELSE items \o Separator(indent, gap))
                      \o (IF val.v.t = "undefined" THEN <<"n","u","l","l">>
                          ELSE val.v.s),
                    stack, indent, gap, h)
             : val \in {SerializeJSONProperty(elems[i], stack, indent \o gap,
                                              gap, h)} })

SerializeJSONProperty(v, stack, indent, gap, h) ==
  CASE v.t = "null" -> Return(Str(<<"n","u","l","l">>))
    [] v.t = "boolean" ->
         Return(Str(IF v.b THEN <<"t","r","u","e">> ELSE <<"f","a","l","s","e">>))
    [] v.t = "number" -> Return(Str(NumberToString(v.n)))
    [] v.t = "string" -> Return(Str(QuoteJSONString(v.s)))
    [] v.t = "bigint" -> Throw(BigIntError)
    [] v.t = "array" -> SerializeJSONArray(v.elems, 1, <<>>, stack, indent, gap, h)
    [] v.t = "pojo" -> SerializeJSONObject(v, 1, <<>>, stack, indent, gap, h)
    [] v.t = "object" ->
         IF v.id \in stack THEN Throw(CircularError)
         ELSE SerializeJSONObject(OwnEnumerable(v, h), 1, <<>>,
                                  stack \cup {v.id}, indent, gap, h)
    [] OTHER -> Return(Undefined)

\* The replacer of a call: none, or a function that behaves in one of these ways
Replacer(f) == [t |-> "function", f |-> f]

\* What the replacer throws when it throws an error
ReplacerError == NativeError(ERROR_WORD, <<"n","o">>)

\* JSON.stringify(value, replacer, spaces): the text, undefined, or a throw.
\* The replacer is first called for the root, with the key ''.
stringify(value, replacer, spaces, h) ==
  IF replacer.t = "function" /\ replacer.f = "throws an error"
  THEN Throw(ReplacerError)
  ELSE IF replacer.t = "function" /\ replacer.f = "throws null"
  THEN Throw(Null)
  ELSE IF replacer.t = "function" /\ replacer.f = "returns undefined"
  THEN Return(Undefined)
  ELSE SerializeJSONProperty(value, {}, <<>>, Gap(spaces), h)

(***************************************************************************)
(* CodedError: toJson                                                      *)
(***************************************************************************)
K_JSON_STRINGIFY_ERROR == <<"j","s","o","n","S","t","r","i","n","g","i","f","y","E","r","r","o","r">>
K_ERROR == <<"e","r","r","o","r">>

\* The argument { omitting, replacer, spaces } of toJson
JsonArg(omitting, replacer, spaces) ==
  [t |-> "options", omitting |-> omitting, replacer |-> replacer,
   spaces |-> spaces]

\* The parameters of toJson after destructuring, omitting defaulting to 'stack'
JsonParams(arg) ==
  LET a == IF arg.t = "options" THEN arg
           ELSE JsonArg(Undefined, Undefined, Undefined)
  IN  [a EXCEPT !.omitting = IF a.omitting.t = "undefined" THEN Str(K_STACK)
                             ELSE a.omitting]

\* What reading a property of null or undefined throws
NullReadError ==
  NativeError(TypeErrorName, <<"C","a","n","n","o","t"," ","r","e","a","d"," ","p","r","o","p","e","r","t","i","e","s"," ","o","f"," ","n","u","l","l"," ","(","r","e","a","d","i","n","g"," ","'","m","e","s","s","a","g","e","'",")">>)

\* The keys of the two objects of the fallback, in the order they are set
FallbackKeys == <<K_MESSAGE, K_CODE, K_NAME, K_STACK>>

\* A variant of TryBlock that converts with the default omission
TryBlock_DefaultOmitting(id, params, h) ==
  One({ IF o.threw THEN o
        ELSE stringify(o.v, params.replacer, params.spaces, h)
        : o \in {toObject(id, Undefined, {}, h)} })

\* The try block of toJson:
\* JSON.stringify(this.toObject({ omitting }), replacer, spaces)
TryBlock(id, params, h) ==
  One({ IF o.threw THEN o
        ELSE stringify(o.v, params.replacer, params.spaces, h)
        : o \in {toObject(id, OmitArg(params.omitting), {}, h)} })

\* A variant of FallbackPart that omits nothing
FallbackPart_OmitsNothing(from, omitting, h) ==
  Pojo(FallbackKeys,
       [i \in 1..Len(FallbackKeys) |-> Get(from, FallbackKeys[i], h)])

\* fallback[prop], read from the value `from`
FallbackPart(from, omitting, h) ==
  Pojo(FallbackKeys,
       [i \in 1..Len(FallbackKeys) |->
          IF includes(omitting, FallbackKeys[i]) THEN Null
          ELSE Get(from, FallbackKeys[i], h)])

\* The catch block of toJson, e being what was caught
CatchBlock(id, e, params, h) ==
  LET omitting == _normalizeOmitting(params.omitting)
  IN  IF /\ e.t \in {"null", "undefined"}
         /\ \E i \in 1..Len(FallbackKeys) : ~includes(omitting, FallbackKeys[i])
      THEN Throw(NullReadError)
      ELSE stringify(Pojo(<<K_JSON_STRINGIFY_ERROR, K_ERROR>>,
                          <<FallbackPart(e, omitting, h),
                            FallbackPart(Ref(id), omitting, h)>>),
                     Null, params.spaces, h)

\* e.toJson(arg), for the instance e = h[id]: destructuring the argument
\* happens before the try block is entered
toJson(id, arg, h) ==
  IF arg.t = "null" THEN Throw(DestructureError)
  ELSE One({ IF try.threw THEN CatchBlock(id, try.error, JsonParams(arg), h)
             ELSE try
             : try \in {TryBlock(id, JsonParams(arg), h)} })

\* const o = { ... }
NewObject(keys, vals) ==
  /\ Len(heap) < MaxHeap
  /\ heap' = Append(heap, PlainObject(keys, vals))
  /\ last' = [op |-> "newObject", id |-> Len(heap) + 1]
  /\ UNCHANGED classes

\* o[key] = val on a plain object: a new key goes last
AssignKey(id, key, val) ==
  /\ heap[id].kind = "Object"
  /\ heap' = [heap EXCEPT ![id] =
       IF \E i \in 1..Len(@.keys) : @.keys[i] = key
       THEN [@ EXCEPT !.vals[CHOOSE i \in 1..Len(heap[id].keys) :
                                heap[id].keys[i] = key] = val]
       ELSE PlainObject(Append(@.keys, key), Append(@.vals, val))]
  /\ last' = [op |-> "assign", id |-> id]
  /\ UNCHANGED classes

\* Object.assign(e, { key: val, ... }) on a generic Error that has no
\* property of its own with one of these names
AssignAll(id, keys, vals) ==
  /\ heap[id].kind = "Error"
  /\ \A i \in 1..Len(keys) : keys[i] \notin {K_MESSAGE, K_NAME, K_STACK}
  /\ \A i \in 1..Len(keys), j \in 1..Len(heap[id].keys) :
       keys[i] # heap[id].keys[j]
  /\ heap' = [heap EXCEPT ![id].keys = @ \o keys, ![id].vals = @ \o vals]
  /\ last' = [op |-> "assign", id |-> id]
  /\ UNCHANGED classes

\* A variant of AssignMessage under which the message of an instance is
\* read from its cause whenever it is asked for
AssignMessage_Live(id, val) ==
  /\ heap[id].kind \in {"Error", "CodedError"}
  /\ heap[id].message # val
  /\ heap' = [i \in 1..Len(heap) |->
               IF i = id THEN [heap[i] EXCEPT !.message = val]
               ELSE IF heap[i].kind = "CodedError" /\ heap[i].cause = Ref(id)
               THEN [heap[i] EXCEPT !.message = Str(@.s \o <<":"," ">> \o val.s)]
               ELSE heap[i]]
  /\ last' = [op |-> "assign", id |-> id]
  /\ UNCHANGED classes

\* e.message = val on an error the caller holds: message is an own data
\* property of the error
AssignMessage(id, val) ==
  /\ heap[id].kind \in {"Error", "CodedError"}
  /\ heap[id].message # val
  /\ heap' = [heap EXCEPT ![id].message = val]
  /\ last' = [op |-> "assign", id |-> id]
  /\ UNCHANGED classes

\* e.cause = val on an instance
AssignCause(id, val) ==
  /\ heap[id].kind = "CodedError"
  /\ heap' = [heap EXCEPT ![id].cause = val]
  /\ last' = [op |-> "assign", id |-> id]
  /\ UNCHANGED classes

\* e.toJson(arg): the call changes no object; its outcome is what the caller
\* sees
ToJson(id, arg) ==
  /\ heap[id].kind = "CodedError"
  /\ last' = [op |-> "toJson", id |-> id, arg |-> arg,
              outcome |-> toJson(id, arg, heap)]
  /\ UNCHANGED <<classes, heap>>

(***************************************************************************)
(* Inputs                                                                  *)
(***************************************************************************)
NameInputs ==
  { <<"E","r","r","o","r">>,
    <<"F","o","o">>,
    <<"F","o","o","E","r","r","o","r">>,
    <<"F","o","o","E","r","r","o","r","E","r","r","o","r">>,
    <<"M","y","C","a","u","s","e","0","E","r","r","o","r">>,
    <<"f","o","o","B","a","r">> }

CodeInputs ==
  { <<"E","_">>,
    <<"E","_","F","O","O">>,
    <<"E","_","M","Y","_","E","R","R","O","R">>,
    <<"E","_","M","Y","_","E","R","R","O","R","_","C","A","U","S","E">>,
    <<"f","o","o","_","_","b","a","r","2">> }

\* Neither a code nor a name: both absent, or both falsy
AbsentInputs == {<<Undefined, Undefined>>, <<Str(<<>>), Null>>}

\* The (code, name) arguments tried: a code alone, a name alone, neither, or
\* both (among them MyError with E_MY_ERROR, and Error with E_)
DefineInputs ==
  {<<Str(c), Undefined>> : c \in CodeInputs}
    \cup {<<Undefined, Str(n)>> : n \in NameInputs}
    \cup {<<Str(<<>>), Str(<<"F","o","o">>)>>,
          <<Str(<<"E","_","F","O","O">>), Null>>}
    \cup AbsentInputs
    \cup {<<Str(<<"E","_","M","Y","_","E","R","R","O","R">>),
            Str(<<"M","y","E","r","r","o","r">>)>>,
          <<Str(<<"E","_">>), Str(<<"E","r","r","o","r">>)>>}

\* The arguments tried on subclass: {}, a name alone, a code alone, both
SubclassInputs ==
  { <<Undefined, Undefined>>,
    <<Undefined, Str(<<"F","o","o","E","r","r","o","r">>)>>,
    <<Str(<<"E","_","M","Y","_","E","R","R","O","R","_","C","A","U","S","E">>),
      Undefined>>,
    <<Str(<<"E","_","M","Y","_","E","R","R","O","R">>),
      Str(<<"M","y","E","r","r","o","r">>)>> }

BOOM == <<"b","o","o","m">>
WHY == <<"w","h","y">>
M0 == <<"m","0">>
M1 == <<"m","1">>
E_OTHER == <<"E","_","O","T","H","E","R">>
OTHER_ERROR == <<"O","t","h","e","r","E","r","r","o","r">>

\* Constructor arguments that carry only overrides of the code or the name
OverrideArgs ==
  { Undefined,
    Options(Undefined, Undefined, Undefined, Undefined, Undefined, Str(E_OTHER)),
    Options(Undefined, Undefined, Undefined, Undefined, Str(OTHER_ERROR), Undefined) }

Refs(h) == {Ref(i) : i \in 1..Len(h)}

\* Arrays of causes: errors among null and other values
ArrayInputs(h) ==
  {<<r, Null, Num(13)>> : r \in Refs(h)}
    \cup {<<Ref(1), r, Null, Num(13)>> : r \in Refs(h) \ {Ref(1)}}
    \cup {<<Undefined, Str(<<>>), Bool(FALSE)>>, <<Symbol>>}

\* Constructor arguments of a wrapping error: no argument, a bare string, or
\* options with a cause
WrapperArgs(h) ==
  {Undefined, Str(BOOM)}
    \cup {Options(c, Str(BOOM), Undefined, Undefined, Undefined, Undefined) :
            c \in {Null, Num(13), Num(0), Bool(FALSE), Symbol} \cup Refs(h)
                     \cup {List(elems) : elems \in ArrayInputs(h)}}
    \cup {Options(c, Undefined, Undefined, Undefined, Undefined, Undefined) :
            c \in Refs(h)}

QUOTED == <<"s","a","y"," ",QUOTE,"h","i",QUOTE>>
K_SELF == <<"s","e","l","f">>
K_N == <<"n">>

\* Constructor arguments of the instances to serialize: with an array cause,
\* an info object, or a code that is a BigInt
JsonInstanceArgs(h) ==
  {Undefined,
   Options(Undefined, Undefined, Undefined, Undefined, Undefined, BigInt(10))}
    \cup {Options(List(<<r, Num(13)>>), Str(QUOTED), Undefined, Undefined,
                  Undefined, Undefined) : r \in Refs(h)}
    \cup {Options(Undefined, Str(BOOM), Undefined, r, Undefined, Undefined) :
            r \in Refs(h)}

\* Every name of the fallback, and a value that is no name
OmitAll ==
  List(<<Str(K_MESSAGE), Str(K_CODE), Str(K_NAME), Str(K_STACK), Num(1)>>)

\* The arguments of toJson tried
ToJsonArgs ==
  {Undefined, Null,
   JsonArg(Undefined, Undefined, Num(2)),
   JsonArg(Bool(FALSE), Replacer("identity"), Undefined),
   JsonArg(Str(K_NAME), Replacer("throws an error"), Num(2)),
   JsonArg(Undefined, Replacer("throws null"), Undefined),
   JsonArg(OmitAll, Replacer("throws null"), Undefined),
   JsonArg(Undefined, Replacer("returns undefined"), Undefined),
   JsonArg(Bool(FALSE), Undefined, Undefined),
   JsonArg(List(<<Str(K_CODE)>>), Undefined, Undefined)}

\* Two classes as the factory defines them: CodedError({ code: 'E_MY' }) and
\* its subclass({ name: 'WhyError' })
MessageClasses ==
  << NewClass(_determineCodeAndName(Str(<<"E","_","M","Y">>), Undefined), 0),
     NewClass(_determineCodeAndName(Undefined,
                                    Str(<<"W","h","y","E","r","r","o","r">>)), 1) >>

(***************************************************************************)
(* The state machine                                                       *)
(***************************************************************************)
Init ==
  /\ classes = <<>>
  /\ heap = <<>>
  /\ last = [op |-> "none"]

\* CodedError({ code, name })
Define ==
  \E in \in DefineInputs :
    /\ defineErrorClass(in[1], in[2], 0)
    /\ UNCHANGED heap

\* C.subclass({ code, name })
Subclass ==
  \E C \in 1..Len(classes), in \in SubclassInputs :
    /\ defineErrorClass(in[1], in[2], C)
    /\ UNCHANGED heap

\* the first instance: new C(), or new C with an override of the code or name
NewFirst ==
  /\ heap = <<>>
  /\ \E C \in 1..Len(classes), arg \in OverrideArgs : New(C, arg)

NextNaming == Define \/ Subclass \/ NewFirst

SpecNaming == Init /\ [][NextNaming]_vars

\* The message of instances: causes are generic errors, instances, other
\* values, and arrays of them
InitMessage ==
  /\ classes = MessageClasses
  /\ heap = <<>>
  /\ last = [op |-> "none"]

CallerError == \E m \in {<<>>, M1} : NewError(Str(m))

\* Constructor arguments of a cause built from the subclass: no argument, a
\* bare string, message and msg together, msg alone or under a falsy message,
\* and a message with a cause and a code override
CauseArgs ==
  {Undefined, Str(WHY), Str(M0),
   Options(Undefined, Str(WHY), Str(M0), Undefined, Undefined, Undefined),
   Options(Undefined, Undefined, Str(M0), Undefined, Undefined, Undefined),
   Options(Undefined, Str(<<>>), Str(WHY), Undefined, Undefined, Undefined),
   Options(Num(13), Str(WHY), Undefined, Undefined, Undefined, Str(E_OTHER))}

NewCause == \E arg \in CauseArgs : New(2, arg)

NewWrapper == \E arg \in WrapperArgs(heap) : New(1, arg)

NextMessage == CallerError \/ NewCause \/ NewWrapper

SpecMessage == InitMessage /\ [][NextMessage]_vars

\* Serialization: the caller builds up to MaxSerialized plain objects and
\* instances, ties cycles through info objects and causes, and calls toJson
CallerObject ==
  /\ Len(heap) < MaxSerialized
  /\ NewObject(<<K_N>>, <<Num(13)>>)

\* o.self = o, e.cause = e
CallerCycle ==
  \E id \in 1..Len(heap) :
    \/ AssignKey(id, K_SELF, Ref(id))
    \/ AssignCause(id, Ref(id))

NewInstance ==
  /\ Len(heap) < MaxSerialized
  /\ \E arg \in JsonInstanceArgs(heap) : New(1, arg)

\* toJson changes no object: a call right after a call sees the same objects
\* and returns what it would have returned in place of the first
CallToJson ==
  /\ last.op # "toJson"
  /\ \E id \in 1..Len(heap), arg \in ToJsonArgs : ToJson(id, arg)

NextJson == CallerObject \/ CallerCycle \/ NewInstance \/ CallToJson

SpecJson == InitMessage /\ [][NextJson]_vars

(***************************************************************************)
(* Properties                                                              *)
(***************************************************************************)
DefineReturned == last.op = "defineErrorClass" /\ ~last.threw

NewReturned == last.op = "new" /\ ~last.threw

\* The name written in upper snake case, read off the name from left to
\* right: an underscore before every upper-case letter but a leading one
RECURSIVE UpperSnakeCase(_, _)
UpperSnakeCase(s, i) ==
  IF i = 0 THEN <<>>
  ELSE UpperSnakeCase(s, i - 1)
         \o (IF i > 1 /\ IsUpperChar(s[i]) THEN <<"_">> ELSE <<>>)
         \o <<CharToUpper(s[i])>>

\* The code in upper camel case, read off the code from position i on:
\* underscores vanish and the letter after each is the only upper-case one
RECURSIVE UpperCamelCase(_, _, _)
UpperCamelCase(s, i, atStart) ==
  IF i > Len(s) THEN <<>>
  ELSE IF s[i] = "_" THEN UpperCamelCase(s, i + 1, TRUE)
  ELSE <<IF atStart THEN CharToUpper(s[i]) ELSE CharToLower(s[i])>>
         \o UpperCamelCase(s, i + 1, FALSE)

\* C3: defineErrorClass, and subclass on any class, called with neither a code
\* nor a name (both absent or both falsy) throws, returns no class and leaves
\* the classes defined so far as they were.
C3_NeitherCodeNorNameThrows ==
  [][(/\ last'.op = "defineErrorClass"
      /\ Falsy(last'.code)
      /\ Falsy(last'.name))
       => (last'.threw /\ last'.class = 0 /\ classes' = classes)]_vars

C3_Witness ==
  /\ last.op = "defineErrorClass"
  /\ last.threw
  /\ last.supererror > 0
  /\ last.code = Undefined
  /\ last.name = Undefined
  /\ Len(classes) = 2

\* C4: a class defined with a name and no code has the code "E_" + the
\* upper-snake-case name, less one trailing "_ERROR"; it is the CODE of the
\* class and the code of every instance built without a code override.
C4_CodeDerivedFromName ==
  /\ (DefineReturned /\ Truthy(last.name) /\ Falsy(last.code)) =>
       LET full == <<"E","_">> \o UpperSnakeCase(last.name.s, Len(last.name.s))
           n == Len(full)
           stripped == IF n >= 6 /\ SubSeq(full, n - 5, n) = <<"_","E","R","R","O","R">>
                       THEN SubSeq(full, 1, n - 6)
                       ELSE full
       IN  /\ classes[last.class].CODE = Str(stripped)
           /\ last.name = Str(<<"F","o","o","E","r","r","o","r">>) => stripped = <<"E","_","F","O","O">>
           /\ last.name = Str(<<"F","o","o","E","r","r","o","r","E","r","r","o","r">>) => stripped = <<"E","_","F","O","O","_","E","R","R","O","R">>
  /\ (NewReturned /\ Falsy(Destructure(last.arg)._c)) =>
       heap[last.id].code = classes[last.class].CODE

C4_Witness ==
  /\ NewReturned
  /\ last.arg = Undefined
  /\ classes[last.class].name = Str(<<"M","y","C","a","u","s","e","0","E","r","r","o","r">>)
  /\ heap[last.id].code = Str(<<"E","_","M","Y","_","C","A","U","S","E","0">>)

\* C5: a class defined with a code and no name has the name that is the
\* upper-camel-case code without a leading "E_", with "Error" appended when
\* it does not end with "Error" already; instances built without a name
\* override carry that name.
C5_NameDerivedFromCode ==
  /\ (DefineReturned /\ Truthy(last.code) /\ Falsy(last.name)) =>
       LET c == last.code.s
           from == IF Len(c) >= 2 /\ SubSeq(c, 1, 2) = <<"E","_">> THEN 3 ELSE 1
           camel == UpperCamelCase(c, from, TRUE)
           k == Len(camel)
           named == IF k >= 5 /\ SubSeq(camel, k - 4, k) = <<"E","r","r","o","r">>
                    THEN camel
                    ELSE camel \o <<"E","r","r","o","r">>
       IN  /\ classes[last.class].name = Str(named)
           /\ c = <<"E","_","F","O","O">> => named = <<"F","o","o","E","r","r","o","r">>
           /\ c = <<"E","_","M","Y","_","E","R","R","O","R","_","C","A","U","S","E">> => named = <<"M","y","E","r","r","o","r","C","a","u","s","e","E","r","r","o","r">>
  /\ (NewReturned /\ Falsy(Destructure(last.arg)._n)) =>
       heap[last.id].name = classes[last.class].name

C5_Witness ==
  /\ NewReturned
  /\ last.arg = Undefined
  /\ classes[last.class].CODE = Str(<<"E","_","M","Y","_","E","R","R","O","R","_","C","A","U","S","E">>)
  /\ heap[last.id].name = Str(<<"M","y","E","r","r","o","r","C","a","u","s","e","E","r","r","o","r">>)

\* C6: when both a code and a name are given, the class keeps both as given:
\* MyError with E_MY_ERROR has instances named MyError with code E_MY_ERROR,
\* though the name alone derives E_MY.
C6_BothKeptAsGiven ==
  /\ (DefineReturned /\ Truthy(last.code) /\ Truthy(last.name)) =>
       /\ classes[last.class].CODE = last.code
       /\ classes[last.class].name = last.name
  /\ (/\ NewReturned
      /\ last.arg = Undefined
      /\ classes[last.class].name = Str(<<"M","y","E","r","r","o","r">>)) =>
       /\ heap[last.id].name = Str(<<"M","y","E","r","r","o","r">>)
       /\ heap[last.id].code = Str(<<"E","_","M","Y","_","E","R","R","O","R">>)
  /\ DeriveCode(Str(<<"M","y","E","r","r","o","r">>)) = Str(<<"E","_","M","Y">>)

C6_Witness ==
  /\ NewReturned
  /\ last.arg = Undefined
  /\ heap[last.id].name = Str(<<"M","y","E","r","r","o","r">>)
  /\ heap[last.id].code = Str(<<"E","_","M","Y","_","E","R","R","O","R">>)
  /\ classes[last.class].super > 0

\* C7: every class that was created has a non-empty code and a non-empty
\* name, given or derived.
C7_CodeAndNameNonEmpty ==
  \A C \in 1..Len(classes) :
    /\ classes[C].CODE.t = "string" /\ Len(classes[C].CODE.s) > 0
    /\ classes[C].name.t = "string" /\ Len(classes[C].name.s) > 0

C7_Witness ==
  /\ Len(classes) = 2
  /\ classes[1] = [CODE |-> Str(<<"E">>), name |-> Str(<<"E","r","r","o","r">>), super |-> 0]
  /\ classes[2] = [CODE |-> Str(<<"E","_">>), name |-> Str(<<"E","r","r","o","r">>), super |-> 0]

\* The message given to the constructor: the bare string, message, or msg
GivenMessage(arg) ==
  LET a == Destructure(arg)
  IN  IF arg.t = "string" /\ arg.s # <<>> THEN arg.s
      ELSE IF a.message.t = "string" /\ a.message.s # <<>> THEN a.message.s
      ELSE IF a.msg.t = "string" /\ a.msg.s # <<>> THEN a.msg.s
      ELSE <<"N","O","_","M","E","S","S","A","G","E">>

RECURSIVE ElementTexts(_, _, _)
ElementTexts(elems, i, h) ==
  IF i > Len(elems) THEN <<>>
  ELSE LET it == elems[i]
           text ==
             IF it.t \in {"null", "undefined"} THEN <<>>
             ELSE IF it.t = "object" /\ h[it.id].kind \in {"Error", "CodedError"}
             THEN << IF h[it.id].message.s = <<>>
                     THEN <<"N","O","_","M","E","S","S","A","G","E">>
                     ELSE h[it.id].message.s >>
             ELSE << ToText(it, h).v >>
       IN  text \o ElementTexts(elems, i + 1, h)

RECURSIVE CommaSeparated(_)
CommaSeparated(texts) ==
  IF texts = <<>> THEN <<>>
  ELSE IF Len(texts) = 1 THEN texts[1]
  ELSE texts[1] \o <<","," ">> \o CommaSeparated(Tail(texts))

\* The family instance built with message m0 and the generic Error("m1")
FamilyM0(v, h) ==
  /\ instanceofCodedError(v, h)
  /\ h[v.id].message = Str(h[v.id].code.s \o <<":"," ","m","0">>)

GenericM1(v, h) ==
  /\ instanceofError(v, h)
  /\ h[v.id].kind = "Error"
  /\ h[v.id].message = Str(<<"m","1">>)

\* The rule of C10: the message is "<code>: <message>: [" + the elements
\* joined by ", " + "]", the elements in array order, an error as its message
\* property (NO_MESSAGE when empty), any other element as its text, null and
\* undefined elements left out.
ArrayCauseRule ==
  (NewReturned /\ Destructure(last.arg).cause.t = "array") =>
    LET e == heap[last.id]
        elems == Destructure(last.arg).cause.elems
        head == e.code.s \o <<":"," ">> \o GivenMessage(last.arg)
    IN  /\ e.message =
             Str(head \o <<":"," ","[">>
                   \o CommaSeparated(ElementTexts(elems, 1, heap)) \o <<"]">>)
        /\ (Len(elems) = 3 /\ elems[2] = Null /\ elems[3] = Num(13)
              /\ GenericM1(elems[1], heap)) =>
             e.message = Str(head \o <<":"," ","[","m","1",","," ","1","3","]">>)
        /\ elems = <<Undefined, Str(<<>>), Bool(FALSE)>> =>
             e.message = Str(head \o <<":"," ","[",","," ","f","a","l","s","e","]">>)

\* The array of the example: [family "m0", Error("m1"), null, 13]
ExampleArrayCause ==
  /\ NewReturned
  /\ Destructure(last.arg).cause.t = "array"
  /\ LET elems == Destructure(last.arg).cause.elems
     IN  /\ Len(elems) = 4
         /\ FamilyM0(elems[1], heap)
         /\ GenericM1(elems[2], heap)
         /\ elems[3] = Null
         /\ elems[4] = Num(13)

\* C10 as stated: the rule, and the array [family "m0", Error("m1"), null, 13]
\* renders "[m0, m1, 13]".
C10_AsStated ==
  /\ ArrayCauseRule
  /\ ExampleArrayCause =>
       heap[last.id].message =
         Str(heap[last.id].code.s \o <<":"," ">> \o GivenMessage(last.arg)
               \o <<":"," ","[","m","0",","," ","m","1",","," ","1","3","]">>)

\* C10, amended: the rule, and the array [family "m0", Error("m1"), null, 13]
\* renders "[<cause code>: m0, m1, 13]", the message property of the family
\* element starting with its code.
C10_MessageWithArrayCause ==
  /\ ArrayCauseRule
  /\ ExampleArrayCause =>
       heap[last.id].message =
         Str(heap[last.id].code.s \o <<":"," ">> \o GivenMessage(last.arg)
               \o <<":"," ","[">>
               \o heap[Destructure(last.arg).cause.elems[1].id].code.s
               \o <<":"," ","m","0",","," ","m","1",","," ","1","3","]">>)

C10_Witness ==
  /\ ExampleArrayCause
  /\ heap[last.id].message = Str(<<"E","_","M","Y",":"," ","b","o","o","m",":"," ","[","E","_","W","H","Y",":"," ","m","0",","," ","m","1",","," ","1","3","]">>)

\* Reading JSON text back: the value a text parses to, or no value.  Objects
\* are read as their keys and values in the order of the text.
Whitespace == {" ", NEWLINE}

NoParse == [ok |-> FALSE]

Parsed(v, next) == [ok |-> TRUE, v |-> v, next |-> next]

SkipWhitespace(s, i) ==
  CHOOSE j \in i..(Len(s) + 1) :
    /\ \A k \in i..(j - 1) : s[k] \in Whitespace
    /\ j = Len(s) + 1 \/ s[j] \notin Whitespace

IsDigit(c) == \E d \in 1..Len(DigitChars) : DigitChars[d] = c

DigitsEnd(s, i) ==
  CHOOSE j \in i..(Len(s) + 1) :
    /\ \A k \in i..(j - 1) : IsDigit(s[k])
    /\ j = Len(s) + 1 \/ ~IsDigit(s[j])

RECURSIVE DigitsValue(_, _, _)
DigitsValue(s, i, j) ==
  IF i >= j THEN 0
  ELSE DigitsValue(s, i, j - 1) * 10
         + (CHOOSE d \in 1..Len(DigitChars) : DigitChars[d] = s[j - 1]) - 1

\* the number of backslashes that end right before place k, from place i on
BackslashesBefore(s, i, k) ==
  CHOOSE n \in 0..(k - i) :
    /\ \A m \in (k - n)..(k - 1) : s[m] = BACKSLASH
    /\ n = k - i \/ s[k - n - 1] # BACKSLASH

\* the character at k is the second half of an escape
IsEscaped(s, i, k) == BackslashesBefore(s, i, k) % 2 = 1

\* the place of the quote that closes the string whose text starts at i, or 0
StringEnd(s, i) ==
  LET closing == {j \in i..Len(s) : s[j] = QUOTE /\ ~IsEscaped(s, i, j)}
  IN  IF closing = {} THEN 0
      ELSE One({ IF \E k \in i..(end - 1) : s[k] = NEWLINE THEN 0 ELSE end
                 : end \in {CHOOSE j \in closing : \A k \in closing : j <= k} })

\* the characters of the string between i and j, escapes undone
Unescape(s, i, j) ==
  One({ [n \in 1..Len(kept) |->
           IF IsEscaped(s, i, kept[n]) /\ s[kept[n]] = "n" THEN NEWLINE
           ELSE s[kept[n]]]
        : kept \in {SelectSeq([n \in 1..(j - i) |-> i + n - 1],
                              LAMBDA k : s[k] # BACKSLASH \/ IsEscaped(s, i, k))} })

StartsAt(s, i, word) ==
  i + Len(word) - 1 <= Len(s) /\ SubSeq(s, i, i + Len(word) - 1) = word

ParseString(s, i) ==
  IF i > Len(s) \/ s[i] # QUOTE THEN NoParse
  ELSE One({ IF end = 0 THEN NoParse
             ELSE Parsed(Str(Unescape(s, i + 1, end)), end + 1)
             : end \in {StringEnd(s, i + 1)} })

RECURSIVE ParseValue(_, _), ParseMembers(_, _, _, _), ParseElements(_, _, _)

\* the members of an object from "key": value at i on
ParseMembers(s, i, keys, vals) ==
  One({ IF ~key.ok THEN NoParse
        ELSE One({ IF colon > Len(s) \/ s[colon] # ":" THEN NoParse
                   ELSE One({ IF ~val.ok THEN NoParse
                              ELSE One({ IF after > Len(s) THEN NoParse
                                         ELSE IF s[after] = "}"
                                         THEN Parsed(Pojo(Append(keys, key.v.s),
                                                          Append(vals, val.v)),
                                                     after + 1)
                                         ELSE IF s[after] = ","
                                         THEN ParseMembers(s,
                                                SkipWhitespace(s, after + 1),
                                                Append(keys, key.v.s),
                                                Append(vals, val.v))
                                         ELSE NoParse
                                         : after \in {SkipWhitespace(s, val.next)} })
                              : val \in {ParseValue(s, colon + 1)} })
                   : colon \in {SkipWhitespace(s, key.next)} })
        : key \in {ParseString(s, i)} })

\* the elements of an array from the element at i on
ParseElements(s, i, elems) ==
  One({ IF ~val.ok THEN NoParse
        ELSE One({ IF after > Len(s) THEN NoParse
                   ELSE IF s[after] = "]"
                   THEN Parsed(List(Append(elems, val.v)), after + 1)
                   ELSE IF s[after] = ","
                   THEN ParseElements(s, after + 1, Append(elems, val.v))
                   ELSE NoParse
                   : after \in {SkipWhitespace(s, val.next)} })
        : val \in {ParseValue(s, i)} })

ParseValue(s, from) ==
  One({ IF i > Len(s) THEN NoParse
        ELSE IF s[i] = "{"
        THEN One({ IF j <= Len(s) /\ s[j] = "}" THEN Parsed(Pojo(<<>>, <<>>), j + 1)
                   ELSE ParseMembers(s, j, <<>>, <<>>)
                   : j \in {SkipWhitespace(s, i + 1)} })
        ELSE IF s[i] = "["
        THEN One({ IF j <= Len(s) /\ s[j] = "]" THEN Parsed(List(<<>>), j + 1)
                   ELSE ParseElements(s, j, <<>>)
                   : j \in {SkipWhitespace(s, i + 1)} })
        ELSE IF s[i] = QUOTE THEN ParseString(s, i)
        ELSE IF StartsAt(s, i, <<"n","u","l","l">>) THEN Parsed(Null, i + 4)
        ELSE IF StartsAt(s, i, <<"t","r","u","e">>) THEN Parsed(Bool(TRUE), i + 4)
        ELSE IF StartsAt(s, i, <<"f","a","l","s","e">>)
        THEN Parsed(Bool(FALSE), i + 5)
        ELSE IF IsDigit(s[i])
        THEN Parsed(Num(DigitsValue(s, i, DigitsEnd(s, i))), DigitsEnd(s, i))
        ELSE IF s[i] = "-" /\ i < Len(s) /\ IsDigit(s[i + 1])
        THEN Parsed(Num(0 - DigitsValue(s, i + 1, DigitsEnd(s, i + 1))),
                    DigitsEnd(s, i + 1))
        ELSE NoParse
        : i \in {SkipWhitespace(s, from)} })

\* JSON.parse(text): the whole text is one value
ParseJSON(s) ==
  One({ IF r.ok /\ SkipWhitespace(s, r.next) = Len(s) + 1 THEN r ELSE NoParse
        : r \in {ParseValue(s, 1)} })

\* The value of key in a parsed object, and whether it has the key
HasKey(o, key) == \E i \in 1..Len(o.keys) : o.keys[i] = key

ValueOf(o, key) == o.vals[CHOOSE i \in 1..Len(o.keys) : o.keys[i] = key]

ToJsonCalled == last.op = "toJson"

\* C1, as stated: toJson never throws and always returns a string that parses
\* as JSON, whatever the instance and whatever the argument.
C1_AsStated ==
  ToJsonCalled =>
    /\ ~last.outcome.threw
    /\ last.outcome.v.t = "string"
    /\ ParseJSON(last.outcome.v.s).ok

\* The names the claim's normalized omission set holds for an argument of
\* toJson: stack by default, for true and for null; nothing for false; the
\* name for a string; the strings of an array
OmissionSet(arg) ==
  LET omitting == IF arg.t = "options" THEN arg.omitting ELSE Undefined
  IN  CASE omitting.t \in {"undefined", "null"} -> {<<"s","t","a","c","k">>}
        [] omitting.t = "boolean" ->
             IF omitting.b THEN {<<"s","t","a","c","k">>} ELSE {}
        [] omitting.t = "string" -> {omitting.s} \ {<<>>}
        [] omitting.t = "array" ->
             {omitting.elems[i].s :
                i \in {k \in 1..Len(omitting.elems) : omitting.elems[k].t = "string"}}
        [] OTHER -> {}

\* The try block of the last call failed and the call returned
FallbackReturned ==
  /\ ToJsonCalled
  /\ last.arg.t # "null"
  /\ TryBlock(last.id, JsonParams(last.arg), heap).threw
  /\ ~last.outcome.threw

\* One object of the fallback: exactly the keys that are omitted or have a
\* value, null for an omitted key and the real value for any other
FallbackObjectIs(o, real, names, omitted) ==
  /\ o.t = "pojo"
  /\ \A i \in 1..Len(o.keys) : o.keys[i] \in names
  /\ \A key \in names :
       IF key \in omitted THEN HasKey(o, key) /\ ValueOf(o, key) = Null
       ELSE IF real[key].t = "string"
       THEN HasKey(o, key) /\ ValueOf(o, key) = real[key]
       ELSE ~HasKey(o, key)

ToObject_OmitsInPlace(id, arg) ==
  /\ heap[id].kind = "CodedError"
  /\ last' = [op |-> "toObject", id |-> id, arg |-> arg,
              outcome |-> toObject(id, arg, {}, heap)]
  /\ heap' = [heap EXCEPT ![id].stack =
                IF arg.t = "undefined" \/ arg = Bool(TRUE) THEN OMISSION ELSE @]
  /\ UNCHANGED classes

\* e.toObject(arg): the call changes no object; its outcome is what the
\* caller sees
ToObject(id, arg) ==
  /\ heap[id].kind = "CodedError"
  /\ last' = [op |-> "toObject", id |-> id, arg |-> arg,
              outcome |-> toObject(id, arg, {}, heap)]
  /\ UNCHANGED <<classes, heap>>

K_ONE == <<"o","n","e">>
K_INNER == <<"i","n","n","e","r">>
AGAIN == <<"a","g","a","i","n">>
DEEP == <<"d","e","e","p">>
EIGHTY_FOUR == <<"8","4">>

\* The object the caller made last
Latest(h) == Ref(Len(h))

\* The arguments of toObject tried: none, a boolean, and { omitting } in
\* every form the normalization distinguishes
ToObjectArgs ==
  {Undefined, Bool(TRUE), Bool(FALSE),
   OmitArg(Undefined), OmitArg(Null),
   OmitArg(Str(K_STACK)), OmitArg(List(<<Str(K_STACK)>>)), OmitArg(List(<<>>)),
   OmitArg(Str(K_CODE)), OmitArg(List(<<Str(K_CAUSE)>>)),
   OmitArg(List(<<Str(K_MESSAGE), Num(1), Str(K_NAME)>>)),
   OmitArg(List(<<Null, Str(K_INFO), Str(K_ONE)>>)),
   OmitArg(Str(<<>>)), OmitArg(List(<<Str(<<>>)>>))}

\* Constructor arguments of the instances to convert: no cause, a cause that
\* is the latest object with an info that is the first object, and an array
\* cause that holds the latest object
ObjectInstanceArgs(h) ==
  {Str(BOOM)}
    \cup (IF h = <<>> THEN {}
          ELSE {Options(Latest(h), Str(BOOM), Undefined, Ref(1),
                        Undefined, Undefined),
                Options(List(<<Latest(h), Null, Undefined, Num(13)>>), Str(BOOM),
                        Undefined, Undefined, Undefined, Undefined)})

\* The caller's values that become causes and info: new Error('m1'),
\* { one: 1, stack: 'again', code: '84' } and
\* { stack: 'deep', inner: latest, '': 0 }
CallerValue ==
  /\ Len(heap) < MaxConverted
  /\ \/ NewError(Str(M1))
     \/ NewObject(<<K_ONE, K_STACK, K_CODE>>,
                  <<Num(1), Str(AGAIN), Str(EIGHTY_FOUR)>>)
     \/ /\ heap # <<>>
        /\ NewObject(<<K_STACK, K_INNER, <<>>>>,
                     <<Str(DEEP), Latest(heap), Num(0)>>)

NewConverted ==
  /\ Len(heap) < MaxConverted
  /\ \E arg \in ObjectInstanceArgs(heap) : New(1, arg)

\* toObject changes no object: a call right after a call sees the same objects
CallToObject ==
  /\ last.op # "toObject"
  /\ \E id \in 1..Len(heap), arg \in ToObjectArgs : ToObject(id, arg)

\* e.cause = e, on the instance made last
TieCause == heap # <<>> /\ AssignCause(Len(heap), Latest(heap))

\* Object.assign(err, { code: '84', cause: err, one: 1 }) on the generic
\* Error the caller made last
DecorateError ==
  /\ heap # <<>>
  /\ AssignAll(Len(heap), <<K_CODE, K_CAUSE, K_ONE>>,
               <<Str(EIGHTY_FOUR), Latest(heap), Num(1)>>)

NextObject ==
  CallerValue \/ NewConverted \/ TieCause \/ DecorateError \/ CallToObject

SpecObject == InitMessage /\ [][NextObject]_vars

(***************************************************************************)
(* Properties of toObject                                                  *)
(***************************************************************************)
ToObjectCalled == last.op = "toObject"

ToObjectReturned == ToObjectCalled /\ ~last.outcome.threw

\* The names an argument of toObject asks to omit
OmittedNames(arg) ==
  IF arg.t = "boolean" THEN (IF arg.b THEN {K_STACK} ELSE {})
  ELSE OmissionSet(arg)

KeySet(o) == {o.keys[i] : i \in 1..Len(o.keys)}

\* r is what the claim says the conversion of the cause value v is, S being
\* the omission set: the marker for every name in S at every level, and the
\* real value everywhere else
RECURSIVE CauseConvertedAs(_, _, _, _)
CauseConvertedAs(r, v, S, h) ==
  IF v.t = "array"
  THEN /\ r.t = "array"
       /\ Len(r.elems) = Len(v.elems)
       /\ \A i \in 1..Len(v.elems) : CauseConvertedAs(r.elems[i], v.elems[i], S, h)
  ELSE IF v.t # "object" THEN r = v
  ELSE /\ r.t = "pojo"
       /\ IF h[v.id].kind = "CodedError"
          THEN /\ KeySet(r) = {K_NAME, K_CODE, K_CAUSE, K_INFO, K_MESSAGE, K_STACK}
               /\ \A key \in KeySet(r) :
                    IF key \in S THEN ValueOf(r, key) = OMISSION
                    ELSE IF key = K_CAUSE
                    THEN CauseConvertedAs(ValueOf(r, key), h[v.id].cause, S, h)
                    ELSE ValueOf(r, key) = Get(v, key, h)
          ELSE IF h[v.id].kind = "Error"
          THEN /\ KeySet(r) = {K_MESSAGE, K_NAME, K_STACK}
               /\ \A key \in KeySet(r) :
                    ValueOf(r, key) =
                      IF key \in S THEN OMISSION ELSE Get(v, key, h)
          ELSE /\ r.keys = h[v.id].keys
               /\ \A i \in 1..Len(r.keys) :
                    IF r.keys[i] \in S THEN r.vals[i] = OMISSION
                    ELSE CauseConvertedAs(r.vals[i], h[v.id].vals[i], S, h)

\* C11: toObject replaces every property named in the omission set by the
\* omission marker at every level of the cause chain (the instance, family
\* causes alone or in arrays, generic Error causes, every key at any depth of
\* a plain-object cause), and every other value is the real one; with the
\* default omission stack is null at every level.
C11_OmittedAtEveryLevel ==
  ToObjectReturned =>
    CauseConvertedAs(last.outcome.v, Ref(last.id), OmittedNames(last.arg), heap)

\* an instance whose array cause holds an instance whose cause is a plain
\* object: the code of all three is omitted
C11_Witness ==
  /\ ToObjectReturned
  /\ last.arg = OmitArg(Str(K_CODE))
  /\ heap[last.id].cause.t = "array"
  /\ heap[last.id].cause.elems[1].t = "object"
  /\ heap[heap[last.id].cause.elems[1].id].kind = "CodedError"
  /\ heap[heap[last.id].cause.elems[1].id].cause.t = "object"
  /\ heap[heap[heap[last.id].cause.elems[1].id].cause.id].kind = "Object"
  /\ ValueOf(ValueOf(ValueOf(last.outcome.v, K_CAUSE).elems[1], K_CAUSE), K_CODE)
       = OMISSION

\* The info of the instance v, and of every instance reached from it through
\* causes that are not omitted, is in the result r as it is in the instance
RECURSIVE InfoKept(_, _, _, _)
InfoKept(r, v, S, h) ==
  IF v.t = "array"
  THEN /\ r.t = "array"
       /\ Len(r.elems) = Len(v.elems)
       /\ \A i \in 1..Len(v.elems) : InfoKept(r.elems[i], v.elems[i], S, h)
  ELSE IF v.t # "object" \/ h[v.id].kind = "Error" THEN TRUE
  ELSE /\ r.t = "pojo"
       /\ IF h[v.id].kind = "CodedError"
          THEN /\ HasKey(r, K_INFO)
               /\ K_INFO \notin S => ValueOf(r, K_INFO) = h[v.id].info
               /\ K_CAUSE \notin S =>
                    InfoKept(ValueOf(r, K_CAUSE), h[v.id].cause, S, h)
          ELSE \A i \in 1..Len(h[v.id].keys) :
                 h[v.id].keys[i] \notin S =>
                   /\ HasKey(r, h[v.id].keys[i])
                   /\ InfoKept(ValueOf(r, h[v.id].keys[i]), h[v.id].vals[i], S, h)

\* C12: when info is not in the omission set, the info in the result of
\* toObject, for the instance and for every family cause in its chain, is the
\* instance's info unchanged: keys inside info that are named in the omission
\* set keep their values.
C12_InfoUntouched ==
  ToObjectReturned =>
    InfoKept(last.outcome.v, Ref(last.id), OmittedNames(last.arg), heap)

\* code is omitted, and the info of the instance and of its family cause is an
\* object with a code of its own
C12_Witness ==
  /\ ToObjectReturned
  /\ last.arg = OmitArg(Str(K_CODE))
  /\ heap[last.id].info = Ref(1)
  /\ heap[1].kind = "Object"
  /\ K_CODE \in KeySet(heap[1])
  /\ heap[last.id].cause.t = "object"
  /\ heap[heap[last.id].cause.id].kind = "CodedError"
  /\ heap[heap[last.id].cause.id].info = Ref(1)
  /\ ValueOf(ValueOf(last.outcome.v, K_CAUSE), K_INFO) = Ref(1)
  /\ ValueOf(ValueOf(last.outcome.v, K_CAUSE), K_CODE) = OMISSION

\* C13: the keys of a toObject result do not depend on the omission set: they
\* are name, code, cause and info (the instance's own enumerable properties)
\* and then message and stack; an omitted key is present with the value null;
\* and when cause is omitted the call converts no cause, so that it returns
\* whatever the cause is.
C13_KeysIndependentOfOmission ==
  (ToObjectCalled /\ last.arg.t # "null") =>
    /\ K_CAUSE \in OmittedNames(last.arg) => ~last.outcome.threw
    /\ ~last.outcome.threw =>
         /\ last.outcome.v.t = "pojo"
         /\ last.outcome.v.keys =
              <<K_NAME, K_CODE, K_CAUSE, K_INFO, K_MESSAGE, K_STACK>>
         /\ \A key \in KeySet(last.outcome.v) \cap OmittedNames(last.arg) :
              ValueOf(last.outcome.v, key) = OMISSION

\* an instance that is its own cause, converted with cause omitted
C13_Witness ==
  /\ ToObjectReturned
  /\ last.arg = OmitArg(List(<<Str(K_CAUSE)>>))
  /\ heap[last.id].cause = Ref(last.id)
  /\ ValueOf(last.outcome.v, K_CAUSE) = OMISSION
  /\ ValueOf(last.outcome.v, K_STACK) = heap[last.id].stack

\* The omitting value an argument of toObject carries: the boolean itself,
\* the omitting property of an options object, undefined without an argument
GivenOmitting(arg) ==
  IF arg.t = "options" THEN arg.omitting ELSE arg

\* The list of names the claim gives for an omitting value, as stated: a
\* string gives the one-element list of that string, whatever the string
NamesAsStated(omitting) ==
  CASE omitting.t \in {"undefined", "null"} -> <<Str(K_STACK)>>
    [] omitting.t = "boolean" ->
         IF omitting.b THEN <<Str(K_STACK)>> ELSE <<>>
    [] omitting.t = "string" -> <<omitting>>
    [] omitting.t = "array" ->
         SelectSeq(omitting.elems, LAMBDA it : it.t = "string")

\* The same list, but the empty string gives the empty list
NamesOfNonEmpty(omitting) ==
  IF omitting = Str(<<>>) THEN <<>> ELSE NamesAsStated(omitting)

\* The arguments the claim says are equivalent to toObject()
StackForms ==
  {Undefined, Bool(TRUE), OmitArg(Str(K_STACK)), OmitArg(List(<<Str(K_STACK)>>))}

\* The arguments the claim says are equivalent to toObject(false)
NothingForms == {Bool(FALSE), OmitArg(List(<<>>))}

\* C14, as stated: a call of toObject returns what the call with the list
\* of names the claim gives for its omitting value returns, a single string
\* giving the one-element list of that string.
C14_AsStated ==
  ToObjectCalled =>
    last.outcome =
      toObject(last.id, OmitArg(List(NamesAsStated(GivenOmitting(last.arg)))),
               {}, heap)

\* C14: a call of toObject returns what the call with the normalized list of
\* names returns, through every level of the cause: true, null and undefined
\* give ["stack"], false gives [], a non-empty string gives the one-element
\* list of that string and the empty string gives [], an array gives its
\* string elements; so toObject(), toObject(true), toObject({omitting:
\* 'stack'}) and toObject({omitting: ['stack']}) return equal results, and
\* toObject(false) and toObject({omitting: []}) return equal results.
C14_NormalizedOmitting ==
  ToObjectCalled =>
    /\ last.outcome =
         toObject(last.id,
                  OmitArg(List(NamesOfNonEmpty(GivenOmitting(last.arg)))),
                  {}, heap)
    /\ last.arg \in StackForms =>
         \A arg \in StackForms : toObject(last.id, arg, {}, heap) = last.outcome
    /\ last.arg \in NothingForms =>
         \A arg \in NothingForms : toObject(last.id, arg, {}, heap) = last.outcome

\* { omitting: null } on an instance whose cause, an array, holds an object
\* with a stack: the stack of the cause is omitted as it is for true
C14_Witness ==
  /\ ToObjectReturned
  /\ last.arg = OmitArg(Null)
  /\ heap[last.id].cause.t = "array"
  /\ heap[last.id].cause.elems[1].t = "object"
  /\ heap[heap[last.id].cause.elems[1].id].kind = "Object"
  /\ ValueOf(ValueOf(last.outcome.v, K_CAUSE).elems[1], K_STACK) = OMISSION
  /\ ValueOf(last.outcome.v, K_STACK) = OMISSION

\* { omitting: '' } on an instance whose cause has a property named '': the
\* property keeps its value, which { omitting: [''] } replaces
C14_EmptyString ==
  /\ ToObjectReturned
  /\ last.arg = OmitArg(Str(<<>>))
  /\ heap[last.id].cause.t = "object"
  /\ heap[heap[last.id].cause.id].kind = "Object"
  /\ <<>> \in KeySet(ValueOf(last.outcome.v, K_CAUSE))
  /\ ValueOf(ValueOf(last.outcome.v, K_CAUSE), <<>>) = Num(0)

\* r is what the claim says the conversion of the generic Error v is, S being
\* the omission set: message, name and stack and nothing else
GenericConvertedAs(r, v, S, h) ==
  /\ r.t = "pojo"
  /\ Len(r.keys) = 3
  /\ KeySet(r) = {K_MESSAGE, K_NAME, K_STACK}
  /\ ValueOf(r, K_MESSAGE) =
       IF K_MESSAGE \in S THEN OMISSION ELSE h[v.id].message
  /\ ValueOf(r, K_NAME) = IF K_NAME \in S THEN OMISSION ELSE h[v.id].name
  /\ ValueOf(r, K_STACK) = IF K_STACK \in S THEN OMISSION ELSE h[v.id].stack

\* v is a generic Error: an Error outside the family
IsGenericError(v, h) == v.t = "object" /\ h[v.id].kind = "Error"

\* C15: in a toObject result, a cause that is a generic Error, alone or as an
\* element of a cause array, is a structure with exactly the three keys
\* message, name and stack, each the omission marker when in the omission
\* set; no other property the generic error carries appears.
C15_GenericErrorCause ==
  (ToObjectReturned /\ K_CAUSE \notin OmittedNames(last.arg)) =>
    LET cause == heap[last.id].cause
        r == ValueOf(last.outcome.v, K_CAUSE)
        S == OmittedNames(last.arg)
    IN  /\ IsGenericError(cause, heap) => GenericConvertedAs(r, cause, S, heap)
        /\ cause.t = "array" =>
             \A i \in 1..Len(cause.elems) :
               IsGenericError(cause.elems[i], heap) =>
                 GenericConvertedAs(r.elems[i], cause.elems[i], S, heap)

\* the cause is a generic Error that carries a code, a cause and one more
\* property, and the stack is not omitted
C15_Witness ==
  /\ ToObjectReturned
  /\ last.arg = OmitArg(List(<<Str(K_MESSAGE), Num(1), Str(K_NAME)>>))
  /\ IsGenericError(heap[last.id].cause, heap)
  /\ heap[heap[last.id].cause.id].keys = <<K_CODE, K_CAUSE, K_ONE>>
  /\ ValueOf(ValueOf(last.outcome.v, K_CAUSE), K_STACK) =
       heap[heap[last.id].cause.id].stack
  /\ ValueOf(ValueOf(last.outcome.v, K_CAUSE), K_NAME) = OMISSION

(***************************************************************************)
(* The round trip of toJson and toObject                                   *)
(***************************************************************************)
\* toJson was called with an argument that gives no replacer
ToJsonCalledPlain ==
  /\ ToJsonCalled
  /\ last.arg.t # "null"
  /\ JsonParams(last.arg).replacer.t = "undefined"

\* The properties structural equality looks at: the members of a structure
\* the library built, the own enumerable properties of an object
Members(v, h) == OwnEnumerable(v, h)

IsStructure(v) == v.t \in {"pojo", "object"}

\* No object is met again on the way down from v, path being the objects
\* on the way to v
RECURSIVE Acyclic(_, _, _)
Acyclic(v, path, h) ==
  IF v.t = "array"
  THEN \A i \in 1..Len(v.elems) : Acyclic(v.elems[i], path, h)
  ELSE IF v.t = "pojo"
  THEN \A i \in 1..Len(v.vals) : Acyclic(v.vals[i], path, h)
  ELSE IF v.t = "object"
  THEN /\ v.id \notin path
       /\ \A i \in 1..Len(Members(v, h).vals) :
            Acyclic(Members(v, h).vals[i], path \cup {v.id}, h)
  ELSE TRUE

\* No BigInt is met on the way down from the acyclic v
RECURSIVE NoBigInt(_, _)
NoBigInt(v, h) ==
  IF v.t = "array"
  THEN \A i \in 1..Len(v.elems) : NoBigInt(v.elems[i], h)
  ELSE IF IsStructure(v)
  THEN \A i \in 1..Len(Members(v, h).vals) : NoBigInt(Members(v, h).vals[i], h)
  ELSE v.t # "bigint"

\* p is structurally equal to the acyclic v: the same keys and the same
\* values, the same elements
RECURSIVE SameStructure(_, _, _)
SameStructure(p, v, h) ==
  IF v.t = "array"
  THEN /\ p.t = "array"
       /\ Len(p.elems) = Len(v.elems)
       /\ \A i \in 1..Len(v.elems) : SameStructure(p.elems[i], v.elems[i], h)
  ELSE IF IsStructure(v)
  THEN /\ p.t = "pojo"
       /\ KeySet(p) = KeySet(Members(v, h))
       /\ \A key \in KeySet(p) :
            SameStructure(ValueOf(p, key), ValueOf(Members(v, h), key), h)
  ELSE p = v

\* JSON has no text for these values
Unwritten(v) == v.t \in {"undefined", "function", "symbol"}

\* p is what JSON keeps of the acyclic v: a key whose value has no text is
\* missing, an element that has no text is null, and every other key and
\* value is the same and in the same order
RECURSIVE JsonKeeps(_, _, _)
JsonKeeps(p, v, h) ==
  IF v.t = "array"
  THEN /\ p.t = "array"
       /\ Len(p.elems) = Len(v.elems)
       /\ \A i \in 1..Len(v.elems) :
            IF Unwritten(v.elems[i]) THEN p.elems[i] = Null
            ELSE JsonKeeps(p.elems[i], v.elems[i], h)
  ELSE IF IsStructure(v)
  THEN LET m == Members(v, h)
           kept == SelectSeq([i \in 1..Len(m.keys) |-> i],
                             LAMBDA i : ~Unwritten(m.vals[i]))
       IN  /\ p.t = "pojo"
           /\ p.keys = [k \in 1..Len(kept) |-> m.keys[kept[k]]]
           /\ \A k \in 1..Len(kept) : JsonKeeps(p.vals[k], m.vals[kept[k]], h)
  ELSE p = v

CODED_ERROR == <<"C","o","d","e","d","E","r","r","o","r">>
E_SUPER == <<"E","_","S","U","P","E","R">>
E_SUB == <<"E","_","S","U","B">>
E_CODED == <<"E","_","C","O","D","E","D">>
SUPER_ERROR == <<"S","u","p","e","r","E","r","r","o","r">>

\* The names of the classes from C up to, and without, CodedError
RECURSIVE ClassChainNames(_, _)
ClassChainNames(C, cls) ==
  IF C = 0 THEN <<>> ELSE <<cls[C].name>> \o ClassChainNames(cls[C].super, cls)

\* The name of the platform's constructor of a value that is no error
PlatformConstructor(it, h) ==
  CASE it.t = "object" -> <<"O","b","j","e","c","t">>
    [] it.t = "array" -> <<"A","r","r","a","y">>
    [] it.t = "number" -> <<"N","u","m","b","e","r">>
    [] it.t = "string" -> <<"S","t","r","i","n","g">>
    [] it.t = "boolean" -> <<"B","o","o","l","e","a","n">>
    [] it.t = "bigint" -> <<"B","i","g","I","n","t">>
    [] it.t = "symbol" -> <<"S","y","m","b","o","l">>

\* The name property of it.constructor and of every prototype above it, which
\* ends with Function.prototype (named '') and Object.prototype (no name)
ConstructorNames(it, h, cls) ==
  (IF instanceofCodedError(it, h)
   THEN ClassChainNames(h[it.id].class, cls)
          \o <<Str(CODED_ERROR), Str(ERROR_WORD)>>
   ELSE IF instanceofError(it, h) THEN <<Str(ERROR_WORD)>>
   ELSE <<Str(PlatformConstructor(it, h))>>)
    \o <<Str(<<>>), Undefined>>

\* let proto = it.constructor; while (proto && proto.name !== 'CodedError')
\* { if (proto.name === name) return true; proto = Object.getPrototypeOf(proto) }
RECURSIVE WalkFinds(_, _, _)
WalkFinds(names, i, name) ==
  IF i > Len(names) THEN FALSE
  ELSE IF names[i] = Str(CODED_ERROR) THEN FALSE
  ELSE IF names[i] = name THEN TRUE
  ELSE WalkFinds(names, i + 1, name)

\* What reading a property of undefined or null throws
NameReadError ==
  NativeError(TypeErrorName, <<"C","a","n","n","o","t"," ","r","e","a","d"," ","p","r","o","p","e","r","t","i","e","s"," ","o","f"," ","u","n","d","e","f","i","n","e","d"," ","(","r","e","a","d","i","n","g"," ","'","n","a","m","e","'",")">>)

\* A variant of isInstance without the test of a falsy candidate
isInstance_NoGuard(C, it, h, cls) ==
  IF it.t \in {"undefined", "null"} THEN Throw(NameReadError)
  ELSE IF Get(it, K_NAME, h) = cls[C].name THEN Return(Bool(TRUE))
  ELSE Return(Bool(WalkFinds(ConstructorNames(it, h, cls), 1, cls[C].name)))

\* C.isInstance(it), for the class C = cls[C]
isInstance(C, it, h, cls) ==
  IF Falsy(it) THEN Return(it)
  ELSE IF Get(it, K_NAME, h) = cls[C].name THEN Return(Bool(TRUE))
  ELSE Return(Bool(WalkFinds(ConstructorNames(it, h, cls), 1, cls[C].name)))

\* The classes above C: the prototype chain of C up to CodedError
RECURSIVE Superclasses(_, _)
Superclasses(C, cls) ==
  IF cls[C].super = 0 THEN {}
  ELSE {cls[C].super} \cup Superclasses(cls[C].super, cls)

\* it instanceof C
instanceof(it, C, h, cls) ==
  /\ instanceofCodedError(it, h)
  /\ C \in {h[it.id].class} \cup Superclasses(h[it.id].class, cls)

\* C.isInstance(it): the call changes nothing; its outcome is what the caller
\* sees
IsInstance(C, it) ==
  /\ last' = [op |-> "isInstance", class |-> C, it |-> it,
              outcome |-> isInstance(C, it, heap, classes)]
  /\ UNCHANGED <<classes, heap>>

\* The (code, name) arguments of the variants tested: Super and Sub as in the
\* tests, and a code from which the name CodedError derives
VariantInputs ==
  {<<Str(E_SUPER), Undefined>>, <<Str(E_SUB), Undefined>>,
   <<Str(E_CODED), Undefined>>}

\* Constructor arguments of the instance tested: none, and a name override
\* that is the name of Super
CandidateArgs ==
  {Undefined,
   Options(Undefined, Undefined, Undefined, Undefined, Str(SUPER_ERROR), Undefined)}

\* The candidates that are no objects: every falsy value, a number and a string
FalsyCandidates ==
  {Undefined, Null, Bool(FALSE), Num(0), Str(<<>>), BigInt(0)}

OtherCandidates == {Num(13), Str(SUPER_ERROR)}

\* CodedError({ code })
DefineVariant ==
  /\ heap = <<>>
  /\ \E in \in VariantInputs : defineErrorClass(in[1], in[2], 0)
  /\ UNCHANGED heap

\* C.subclass({ code })
SubclassVariant ==
  /\ heap = <<>>
  /\ \E C \in 1..Len(classes), in \in VariantInputs :
       defineErrorClass(in[1], in[2], C)
  /\ UNCHANGED heap

\* const e = new C(arg), the one instance tested
NewCandidate ==
  /\ heap = <<>>
  /\ \E C \in 1..Len(classes), arg \in CandidateArgs : New(C, arg)

\* const e = new Error('m1'), the one generic error tested
GenericCandidate == heap = <<>> /\ classes # <<>> /\ NewError(Str(M1))

CallIsInstance ==
  /\ last.op # "isInstance"
  /\ \E C \in 1..Len(classes),
        it \in Refs(heap) \cup FalsyCandidates \cup OtherCandidates :
       IsInstance(C, it)

NextInstance ==
  \/ DefineVariant
  \/ SubclassVariant
  \/ NewCandidate
  \/ GenericCandidate
  \/ CallIsInstance

SpecInstance == Init /\ [][NextInstance]_vars

(***************************************************************************)
(* Properties of isInstance                                                *)
(***************************************************************************)
IsInstanceCalled == last.op = "isInstance"

\* the candidate of the last call is an instance of a variant
CandidateIsInstance ==
  /\ IsInstanceCalled
  /\ instanceofCodedError(last.it, heap)

\* C17, as stated: an instance of a variant tests positive as an instance of
\* its own variant and of every ancestor, by instanceof and by that variant's
\* isInstance, and it is an instance of the platform Error type.
C17_AsStated ==
  (CandidateIsInstance /\ instanceof(last.it, last.class, heap, classes)) =>
    /\ last.outcome = Return(Bool(TRUE))
    /\ instanceofError(last.it, heap)

\* C18, as stated: a variant's isInstance returns a negative result for every
\* instance of a variant that is neither this variant nor one of its
\* descendants, whatever the names, the codes and the name override.
C18_AsStated ==
  (CandidateIsInstance /\ ~instanceof(last.it, last.class, heap, classes)) =>
    /\ ~last.outcome.threw
    /\ Falsy(last.outcome.v)

\* C19: called with a falsy candidate (no argument, undefined, null, false, 0,
\* the empty string), isInstance raises nothing and returns a falsy value.
C19_FalsyCandidate ==
  (IsInstanceCalled /\ Falsy(last.it)) =>
    /\ ~last.outcome.threw
    /\ Falsy(last.outcome.v)

\* isInstance() on a variant that has a parent
C19_Witness ==
  /\ IsInstanceCalled
  /\ last.it = Undefined
  /\ classes[last.class].super # 0
  /\ ~last.outcome.threw
  /\ last.outcome.v = Undefined

(***************************************************************************)
(* Construction                                                            *)
(***************************************************************************)
\* C20, as stated: constructing an instance of a defined variant never
\* raises because of its cause or info: whatever they are, the constructor
\* returns an instance.
C20_AsStated ==
  last.op = "new" => ~last.threw

\* The constructor was given no cause
NoCauseGiven == Destructure(last.arg).cause.t \in {"undefined", "null"}

\* C21: with no cause, the stored message is "<CODE>: " followed by the text
\* chosen among the arguments: a bare string given as the first argument;
\* else message when it is given and truthy, whatever msg is; else msg, used
\* only when message is absent or falsy.
C21_MessagePrecedence ==
  (NewReturned /\ NoCauseGiven) =>
    LET a == Destructure(last.arg)
        e == heap[last.id]
        prefix == e.code.s \o <<":"," ">>
    IN  /\ (last.arg.t = "string" /\ last.arg.s # <<>>) =>
             e.message = Str(prefix \o last.arg.s)
        /\ (a.message.t = "string" /\ a.message.s # <<>>) =>
             e.message = Str(prefix \o a.message.s)
        /\ (/\ last.arg.t = "options"
            /\ a.message.t = "undefined" \/ a.message = Str(<<>>)
            /\ a.msg.t = "string" /\ a.msg.s # <<>>) =>
             e.message = Str(prefix \o a.msg.s)

\* message 'why' and msg 'm0' together: the message is E_WHY: why
C21_Witness ==
  /\ NewReturned
  /\ last.arg = Options(Undefined, Str(<<"w","h","y">>), Str(<<"m","0">>),
                        Undefined, Undefined, Undefined)
  /\ heap[last.id].message = Str(<<"E","_","W","H","Y",":"," ","w","h","y">>)

\* The text a number, a boolean or a string has in a template literal
PlainText(v) ==
  CASE v = Num(13) -> <<"1","3">>
    [] v = Num(0) -> <<"0">>
    [] v = Bool(FALSE) -> <<"f","a","l","s","e">>
    [] v = Bool(TRUE) -> <<"t","r","u","e">>
    [] v.t = "string" -> v.s

\* C24, as stated: for a single cause that is a number, a boolean or a
\* string, the message is "<CODE>: <message>: " followed by the text of the
\* cause, for 13 as for 0, false and the empty string.
C24_AsStated ==
  (/\ last.op = "new"
   /\ Destructure(last.arg).cause.t \in {"number", "boolean", "string"}) =>
    /\ ~last.threw
    /\ heap[last.id].message =
         Str(heap[last.id].code.s \o <<":"," ">> \o GivenMessage(last.arg)
               \o <<":"," ">> \o PlainText(Destructure(last.arg).cause))

\* C26: an instance built from a class that has a class above it has the
\* message "<code>: <message>" and then the cause, with the code override or
\* else the code of its own class, never the code of the class above, and
\* with the message or msg it was given, NO_MESSAGE only when none was given.
C26_MostDerivedMessage ==
  (NewReturned /\ classes[last.class].super # 0) =>
    LET a == Destructure(last.arg)
        e == heap[last.id]
        code == IF a._c.t = "string" /\ a._c.s # <<>> THEN a._c.s
                ELSE classes[last.class].CODE.s
        above == classes[classes[last.class].super].CODE.s \o <<":"," ">>
        after == IF NoCauseGiven THEN <<>>
                 ELSE <<":"," ">> \o PlainText(a.cause)
    IN  /\ e.message = Str(code \o <<":"," ">> \o GivenMessage(last.arg) \o after)
        /\ Len(e.message.s) >= Len(above) =>
             SubSeq(e.message.s, 1, Len(above)) # above

\* a subclass instance built with a message, a cause and a code override
C26_Witness ==
  /\ NewReturned
  /\ classes[last.class].super = 1
  /\ Destructure(last.arg)._c = Str(<<"E","_","O","T","H","E","R">>)
  /\ heap[last.id].message =
       Str(<<"E","_","O","T","H","E","R",":"," ","w","h","y",":"," ","1","3">>)

\* C22: an instance has the code and the name of the class it was built
\* from, at any depth below another class and never those of the class
\* above, unless the constructor was given a code override (_c) or a name
\* override (_n), which the instance then carries.
C22_InstanceCodeAndName ==
  NewReturned =>
    LET a == Destructure(last.arg)
        e == heap[last.id]
        V == classes[last.class]
    IN  /\ e.code = (IF a._c.t = "undefined" THEN V.CODE ELSE a._c)
        /\ e.name = (IF a._n.t = "undefined" THEN V.name ELSE a._n)
        /\ (V.super # 0 /\ last.arg = Undefined) =>
             /\ V.CODE # classes[V.super].CODE => e.code # classes[V.super].CODE
             /\ V.name # classes[V.super].name => e.name # classes[V.super].name

\* new Sub() of a subclass whose code and name differ from its superclass's
C22_Witness ==
  /\ NewReturned
  /\ last.arg = Undefined
  /\ classes[last.class].super # 0
  /\ classes[last.class].CODE # classes[classes[last.class].super].CODE
  /\ classes[last.class].name # classes[classes[last.class].super].name
  /\ heap[last.id].code = classes[last.class].CODE
  /\ heap[last.id].name = classes[last.class].name

\* C25, as stated: toObject returns a plain structure for every instance,
\* one whose cause leads back to itself included; it never raises.  (The
\* argument null, which toObject cannot destructure, is left aside.)
C25_AsStated ==
  (ToObjectCalled /\ last.arg # Null) =>
    /\ ~last.outcome.threw
    /\ last.outcome.v.t = "pojo"

\* C28: when the cause is an array and is not omitted, the cause of the
\* toObject result is an array of the same length, element by element in
\* the same order: null and undefined elements and primitive elements are
\* the same values at the same places, and an error or object element is a
\* plain object at its place.
C28_ArrayCauseElementwise ==
  (/\ ToObjectReturned
   /\ isArray(heap[last.id].cause)
   /\ K_CAUSE \notin OmittedNames(last.arg)) =>
    LET given == heap[last.id].cause.elems
        r == ValueOf(last.outcome.v, K_CAUSE)
    IN  /\ r.t = "array"
        /\ Len(r.elems) = Len(given)
        /\ \A i \in 1..Len(given) :
             IF given[i].t = "object"
             THEN r.elems[i].t = "pojo"
             ELSE r.elems[i] = given[i]

\* [error, null, undefined, 13] converts to [object, null, undefined, 13]
C28_Witness ==
  /\ ToObjectReturned
  /\ isArray(heap[last.id].cause)
  /\ Len(heap[last.id].cause.elems) = 4
  /\ heap[last.id].cause.elems[1].t = "object"
  /\ LET r == ValueOf(last.outcome.v, K_CAUSE)
     IN  /\ r.t = "array"
         /\ r.elems[1].t = "pojo"
         /\ SubSeq(r.elems, 2, 4) = <<Null, Undefined, Num(13)>>

(***************************************************************************)
(* Derivation there and back: a class defined from the derived code or     *)
(* name of the class defined before it                                     *)
(***************************************************************************)
\* The words of the names and the segments of the codes tried
NameWords ==
  { <<"M","y">>, <<"C","a","u","s","e","0">>, <<"X">>, <<"I","O">>, ERROR_WORD,
    <<"T","e","r","r","o","r">> }

CodeSegments ==
  { <<"M","Y">>, <<"C","A","U","S","E","0">>, <<"X">>, <<"E">>,
    <<"E","R","R","O","R">>, <<"T","E","R","R","O","R">> }

\* Names of one or two words and "Error"; codes of one or two segments
RoundTripNames ==
  {w \o ERROR_WORD : w \in NameWords}
    \cup {w[1] \o w[2] \o ERROR_WORD : w \in NameWords \X NameWords}

RoundTripCodes ==
  {E_PREFIX \o g : g \in CodeSegments}
    \cup {E_PREFIX \o g[1] \o <<"_">> \o g[2] : g \in CodeSegments \X CodeSegments}

\* const First = CodedError({ name })
DefineNamed ==
  /\ classes = <<>>
  /\ \E n \in RoundTripNames : defineErrorClass(Undefined, Str(n), 0)
  /\ UNCHANGED heap

\* const First = CodedError({ code })
DefineCoded ==
  /\ classes = <<>>
  /\ \E c \in RoundTripCodes : defineErrorClass(Str(c), Undefined, 0)
  /\ UNCHANGED heap

\* CodedError({ code: Latest.CODE }), Latest being the class defined last
DefineFromCode ==
  /\ classes # <<>>
  /\ defineErrorClass(classes[Len(classes)].CODE, Undefined, 0)
  /\ UNCHANGED heap

\* CodedError({ name: new Latest().name })
DefineFromName ==
  /\ classes # <<>>
  /\ defineErrorClass(Undefined, classes[Len(classes)].name, 0)
  /\ UNCHANGED heap

NextRoundTrip == DefineNamed \/ DefineCoded \/ DefineFromCode \/ DefineFromName

SpecRoundTrip == Init /\ [][NextRoundTrip]_vars

\* A name in upper camel case, of letters and digits, that ends with "Error"
\* and is longer than "Error"
UpperCamelErrorName(n) ==
  /\ Len(n) > Len(ERROR_WORD)
  /\ endsWith(n, ERROR_WORD)
  /\ IsUpperChar(n[1])
  /\ \A i \in 1..Len(n) : IsUpperChar(n[i]) \/ IsLowerChar(n[i]) \/ IsDigit(n[i])

\* A code "E_" + upper-case segments that start with a letter, joined by "_",
\* that does not end in "_ERROR"
SegmentedCode(c) ==
  /\ Len(c) > 2
  /\ startsWith(c, <<"E","_">>)
  /\ ~endsWith(c, <<"_","E","R","R","O","R">>)
  /\ c[Len(c)] # "_"
  /\ \A i \in 3..Len(c) :
       /\ IsUpperChar(c[i]) \/ IsDigit(c[i]) \/ c[i] = "_"
       /\ c[i - 1] = "_" => IsUpperChar(c[i])

\* The class defined last was defined from a name alone and the next one is
\* defined from the code of that class alone
CodeOfNamedTaken ==
  /\ DefineReturned
  /\ last.code = Undefined /\ last.name.t = "string"
  /\ last'.op = "defineErrorClass" /\ ~last'.threw
  /\ last'.name = Undefined /\ last'.code = classes[last.class].CODE

\* The class defined last was defined from a code alone and the next one is
\* defined from the name of that class alone
NameOfCodedTaken ==
  /\ DefineReturned
  /\ last.name = Undefined /\ last.code.t = "string"
  /\ last'.op = "defineErrorClass" /\ ~last'.threw
  /\ last'.code = Undefined /\ last'.name = classes[last.class].name

\* C29, as stated: a class defined from the derived code of a class that
\* was defined from the name N has the name N, for every upper camel case
\* name N that ends with "Error" and is longer; a class defined from the
\* derived name of a class that was defined from the code C has the code C,
\* for every segmented code C that does not end in "_ERROR".
C29_AsStated ==
  [][/\ (CodeOfNamedTaken /\ UpperCamelErrorName(last.name.s)) =>
          classes'[last'.class].name = last.name
     /\ (NameOfCodedTaken /\ SegmentedCode(last.code.s)) =>
          classes'[last'.class].CODE = last.code]_vars

\* C29, amended: the same, for the names N that do not end with
\* "ErrorError"; a name that does comes back with one "Error" less.
C29_RoundTripButErrorError ==
  [][/\ (CodeOfNamedTaken /\ UpperCamelErrorName(last.name.s)) =>
          IF endsWith(last.name.s, ERROR_WORD \o ERROR_WORD)
          THEN classes'[last'.class].name =
                 Str(SubSeq(last.name.s, 1, Len(last.name.s) - Len(ERROR_WORD)))
          ELSE classes'[last'.class].name = last.name
     /\ (NameOfCodedTaken /\ SegmentedCode(last.code.s)) =>
          classes'[last'.class].CODE = last.code]_vars

\* MyCause0Error gave E_MY_CAUSE0, which gave MyCause0Error again
C29_Witness ==
  /\ Len(classes) = 2
  /\ DefineReturned
  /\ classes[1].name = Str(<<"M","y","C","a","u","s","e","0","E","r","r","o","r">>)
  /\ last.code = Str(<<"E","_","M","Y","_","C","A","U","S","E","0">>)
  /\ last.code = classes[1].CODE
  /\ last.name = Undefined
  /\ classes[2].name = classes[1].name

\* C30, as stated: a class defined with a non-empty name and no code has a
\* code that starts with "E_" and has at least one character after it.
C30_AsStated ==
  (/\ DefineReturned
   /\ last.name.t = "string" /\ last.name.s # <<>>
   /\ Falsy(last.code)) =>
    /\ startsWith(classes[last.class].CODE.s, <<"E","_">>)
    /\ Len(classes[last.class].CODE.s) > 2

(***************************************************************************)
(* What the calls leave alone: the caller's errors and objects across      *)
(* constructions, conversions and serializations                           *)
(***************************************************************************)
\* Constructor arguments of the instances: no cause; a cause that is any
\* object made so far, with the first object as info; an array cause
FrameInstanceArgs(h) ==
  {Str(BOOM)}
    \cup {Options(c, Str(BOOM), Undefined, Ref(1), Undefined, Undefined) :
            c \in Refs(h)}
    \cup (IF h = <<>> THEN {}
          ELSE {Options(List(<<Latest(h), Null>>), Undefined, Undefined,
                        Undefined, Undefined, Undefined)})

NewFramed ==
  /\ Len(heap) < MaxConverted
  /\ \E arg \in FrameInstanceArgs(heap) : New(1, arg)

\* first.message = 'again', on the error made first
Reword == heap # <<>> /\ AssignMessage(1, Str(AGAIN))

\* toObject() and toObject({ omitting: 'cause' }), on the instance made last
ConvertAny ==
  /\ last.op \notin {"toObject", "toJson"}
  /\ heap # <<>>
  /\ \E arg \in {Undefined, OmitArg(Str(K_CAUSE))} : ToObject(Len(heap), arg)

\* toJson() and toJson({ omitting: 'cause', replacer }) with a replacer that
\* throws, on the instance made last
SerializeAny ==
  /\ last.op \notin {"toObject", "toJson"}
  /\ heap # <<>>
  /\ \E arg \in {Undefined,
                  JsonArg(Str(K_CAUSE), Replacer("throws an error"), Undefined)} :
       ToJson(Len(heap), arg)

NextFrame ==
  CallerValue \/ NewFramed \/ TieCause \/ Reword \/ ConvertAny \/ SerializeAny

SpecFrame == InitMessage /\ [][NextFrame]_vars

\* The step is a call of the library: a construction, toObject or toJson
LibraryCall == last'.op \in {"new", "toObject", "toJson"}

\* C23: a construction, a toObject and a toJson, whether it gives the JSON
\* of the instance or the fallback, leave every object that existed before
\* the call as it was: every cause, every element of an array cause, every
\* info object and every field of every instance.
C23_CallsLeaveObjectsAlone ==
  [][LibraryCall =>
       /\ Len(heap') >= Len(heap)
       /\ \A id \in 1..Len(heap) : heap'[id] = heap[id]]_vars

\* toJson gave the fallback for an instance that is its own cause, and the
\* instance still is its own cause, with its info and its stack
C23_Witness ==
  /\ ToJsonCalled
  /\ last.arg = Undefined
  /\ toObject(last.id, Undefined, {}, heap).threw
  /\ heap[last.id].cause = Ref(last.id)
  /\ heap[last.id].info = Ref(1)
  /\ heap[last.id].stack = StackOf(last.id)
  /\ heap[1].kind = "Object"

\* C27: the message of an instance embeds the message its cause has when
\* the instance is constructed, and nothing of the cause's own cause; no
\* later step changes it: no toObject, no toJson, no construction of another
\* instance, no change of the cause's message.
C27_MessageFixedAtConstruction ==
  [][/\ (last'.op = "new" /\ ~last'.threw
         /\ instanceofError(Destructure(last'.arg).cause, heap)) =>
          LET cause == heap[Destructure(last'.arg).cause.id]
          IN  heap'[last'.id].message =
                Str(heap'[last'.id].code.s \o <<":"," ">>
                      \o GivenMessage(last'.arg) \o <<":"," ">> \o cause.message.s)
     /\ \A id \in 1..Len(heap) :
          (/\ heap[id].kind = "CodedError"
           /\ ~(last'.op = "assign" /\ last'.id = id)) =>
            heap'[id].message = heap[id].message]_vars

\* the third error wraps the second, which wraps the first; the first was
\* reworded after the second was made, and before the third was
C27_Witness ==
  /\ Len(heap) = 3
  /\ heap[1].kind = "Error" /\ heap[1].message = Str(AGAIN)
  /\ heap[2].kind = "CodedError" /\ heap[2].cause = Ref(1)
  /\ heap[2].message =
       Str(<<"E","_","M","Y",":"," ","b","o","o","m",":"," ","m","1">>)
  /\ heap[3].kind = "CodedError" /\ heap[3].cause = Ref(1)
  /\ heap[3].message =
       Str(<<"E","_","M","Y",":"," ","b","o","o","m",":"," ","a","g","a","i","n">>)
  /\ last.op = "toJson"


====
